---- MODULE Spec2Model ----
(***************************************************************************)
(* A model of rsult's asynchronous composition layer: ResultAsync and      *)
(* OptionAsync (wrappers around one Promise of a Result / an Option), the  *)
(* static aggregation combinators, and the synchronous sum types they      *)
(* delegate to.                                                            *)
(*                                                                         *)
(* The heap `cells` holds one cell per promise: the promise a wrapper owns *)
(* (`this.promise`) or the plain promise an `async` extraction method      *)
(* returns.  A cell is created by the action that models the method call   *)
(* (the call returns synchronously), and it is settled later by the job    *)
(* that runs the continuation the call attached.  Jobs of different        *)
(* promises interleave freely; the reactions attached to one promise run   *)
(* in attachment order, as the host's job queue guarantees.  Every `await` *)
(* is a suspension point: the code after it is a separate step.            *)
(*                                                                         *)
(* The synchronous Option and Result objects that user code holds and      *)
(* calls methods on live in `heap`; `ret` keeps what the last such call    *)
(* returned.                                                               *)
(***************************************************************************)
EXTENDS Integers, Sequences, FiniteSets, TLC

VARIABLES
    cells,  \* the heap of promises, in creation order
    calls,  \* the log of user-callback invocations, in invocation order
    order,  \* the promises that have settled, in the order they settled
    heap,   \* the Option / Result objects user code holds, in allocation order
    ret     \* the last synchronous method call: receiver, result, callbacks run

vars == <<cells, calls, order, heap, ret>>

---------------------------------------------------------------------------
(* Bounds of the model *)

MaxVal == 2        \* payloads are drawn from 1..MaxVal
MaxHandles == 3    \* wrappers built in an aggregation scenario
MaxCells == 3      \* promises created in a chaining scenario
MaxTries == 2      \* wrappers built in a conversion scenario
MaxChain == 4      \* promises of one linear chain and its observers
MaxObjs == 3       \* objects allocated in a synchronous scenario

Vals == 1..MaxVal

\* Values a callback throws or an input promise rejects with.
Reasons == {-1}

---------------------------------------------------------------------------
(* The synchronous sum types *)

Ok(val) == [tag |-> "Ok", value |-> val]

Err(val) == [tag |-> "Err", value |-> val]

is_ok(result) == result.tag = "Ok"

is_err(result) == result.tag = "Err"

\* `undefined`: what reading `.value` of an OptionNone gives.
undefined == 0

Some(val) == [tag |-> "Some", value |-> val]

None == [tag |-> "None", value |-> undefined]

is_some(option) == option.tag = "Some"

is_none(option) == option.tag = "None"

---------------------------------------------------------------------------
(* Promise cells *)

NoFn == "-"

NotYet == [st |-> "none", val |-> 0]

\* A fresh pending cell; the creating action fills in what it needs.
Blank ==
    [cls |-> "Promise", op |-> "-", src |-> 0, oth |-> 0, hs |-> <<>>,
     fn |-> NoFn, efn |-> NoFn, pc |-> "start", i |-> 0, acc |-> <<>>,
     errs |-> <<>>, pend |-> NotYet, st |-> "pending", val |-> 0, ty |-> "int",
     msg |-> "-", gives |-> 0]

Settled(c) == c.st # "pending"

\* No synchronous method has been called yet.
NoCall ==
    [op |-> "-", self |-> 0, arg |-> 0, was |-> [tag |-> "-", value |-> 0], out |-> 0,
     threw |-> FALSE, called |-> <<>>]

\* The promise is fulfilled with `v`: single assignment, the continuation is over.
Fulfil(c, v) == [c EXCEPT !.st = "fulfilled", !.val = v, !.pc = "done"]

\* The promise is rejected with reason `e`.
Reject(c, e) == [c EXCEPT !.st = "rejected", !.val = e, !.pc = "done"]

Ids == 1..Len(cells)

Wrappers(cls) == {k \in Ids : cells[k].cls = cls}


---------------------------------------------------------------------------
(* What one step of a continuation does to its own promise *)

\* `return v` from the continuation: the promise is fulfilled with v.
Return(v) == [k |-> "return", val |-> v, pend |-> NotYet, of |-> 0, called |-> <<>>]

\* An exception leaves the continuation: the promise is rejected with e.
Throw(e) == [k |-> "throw", val |-> e, pend |-> NotYet, of |-> 0, called |-> <<>>]

\* `await x` (or `return x`) of something still to settle with outcome p:
\* the continuation is suspended and resumes in a later step.
Await(p) == [k |-> "await", val |-> 0, pend |-> p, of |-> 0, called |-> <<>>]

\* `return other.promise` / `await other.promise`: wait for the promise of cell `of`.
AwaitCell(of) == [k |-> "cell", val |-> 0, pend |-> NotYet, of |-> of, called |-> <<>>]

\* The loop of all / allSettled goes on to its next `await`.
Continue(c) == [k |-> "loop", val |-> c, pend |-> NotYet, of |-> 0, called |-> <<>>]

\* The call returns a wrapper whose continuation has not run yet.
Pending == [k |-> "pending", val |-> 0, pend |-> NotYet, of |-> 0, called |-> <<>>]

\* The step invoked user callback f with argument x before doing `out`.
Calling(f, x, out) == [out EXCEPT !.called = <<[fn |-> f, arg |-> x]>> \o @]

\* The cell after the step, and the log after it.
After(c, out) ==
    CASE out.k = "return" -> Fulfil(c, out.val)
      [] out.k = "throw"  -> Reject(c, out.val)
      [] out.k = "await"  -> [c EXCEPT !.pc = "awaitFn", !.pend = out.pend]
      [] out.k = "cell"   -> [c EXCEPT !.pc = "awaitCell", !.oth = out.of]
      [] out.k = "loop"   -> out.val
      [] out.k = "pending" -> c

Logged(k, out) ==
    calls \o [j \in 1..Len(out.called) |->
                 [cell |-> k, fn |-> out.called[j].fn, arg |-> out.called[j].arg]]

Settles(out) == out.k \in {"return", "throw"}

\* A method call returns: promise c joins the heap, its synchronous part done.
Create(c, out) ==
    /\ cells' = Append(cells, After(c, out))
    /\ calls' = Logged(Len(cells) + 1, out)
    /\ order' = IF Settles(out) THEN Append(order, Len(cells) + 1) ELSE order
    /\ UNCHANGED <<heap, ret>>

\* A continuation whose exception also empties the wrapper it was attached to.
Commit_ThrowReachesSource(k, out) ==
    /\ cells' = [cells EXCEPT ![k] = After(cells[k], out),
                              ![cells[k].src] =
                                  IF out.k = "throw" /\ @.st = "fulfilled"
                                  THEN [@ EXCEPT !.val = [@ EXCEPT !.value = undefined]]
                                  ELSE @]
    /\ calls' = Logged(k, out)
    /\ order' = IF Settles(out) THEN Append(order, k) ELSE order
    /\ UNCHANGED <<heap, ret>>

\* A continuation of promise k runs one step.
Commit(k, out) ==
    /\ cells' = [cells EXCEPT ![k] = After(cells[k], out)]
    /\ calls' = Logged(k, out)
    /\ order' = IF Settles(out) THEN Append(order, k) ELSE order
    /\ UNCHANGED <<heap, ret>>

\* The outcome a settled cell presents to whoever awaits it.
Outcome(c) == [st |-> c.st, val |-> c.val]

---------------------------------------------------------------------------
(* Caller-supplied error mappers (the errorFn of fromPromise / try) *)

ErrorFns == {"tagError", "errorFnThrows"}

\* What errorFn(error) does: "tagError" maps the caught value to another value,
\* "errorFnThrows" throws.
errorFn(efn, error) ==
    CASE efn = "tagError"      -> [how |-> "return", val |-> error - 100]
      [] efn = "errorFnThrows" -> [how |-> "throw", val |-> error - 200]

---------------------------------------------------------------------------
(* Constructors over an input promise *)

\* ResultAsync.fromPromise: the handlers `.then(value => Ok(value))` and
\* `.catch(error => Err(errorFn ? errorFn(error) : error))`, run when the input
\* promise has settled with `settled`.
ResultAsync_fromPromise(efn, settled) ==
    IF settled.st = "fulfilled"
    THEN Return(Ok(settled.val))
    ELSE IF efn # NoFn
         THEN LET mapped == errorFn(efn, settled.val) IN
              Calling(efn, settled.val,
                      IF mapped.how = "throw" THEN Throw(mapped.val)
                      ELSE Return(Err(mapped.val)))
         ELSE Return(Err(settled.val))

\* OptionAsync.fromPromise: `.then(value => Some(value)).catch(() => None())`.
OptionAsync_fromPromise(settled) ==
    IF settled.st = "fulfilled" THEN Return(Some(settled.val)) ELSE Return(None)

\* The call X.fromPromise(promise, errorFn?): the wrapper is returned at once,
\* its promise pending until the input promise settles.
FromPromise(cls, efn) ==
    Create([Blank EXCEPT !.cls = cls, !.op = "fromPromise", !.efn = efn], Pending)

\* An input promise whose handlers run at every settlement notice, settled or not.
PromiseSettles_Again(k, settled) ==
    /\ cells[k].op = "fromPromise"
    /\ LET out == IF cells[k].cls = "Result"
                  THEN ResultAsync_fromPromise(cells[k].efn, settled)
                  ELSE OptionAsync_fromPromise(settled)
       IN /\ cells' = [cells EXCEPT ![k] = After([@ EXCEPT !.pend = settled], out)]
          /\ calls' = Logged(k, out)
          /\ order' = Append(order, k)
          /\ UNCHANGED <<heap, ret>>

\* The input promise of a fromPromise wrapper settles (at any time, either way)
\* and the attached handlers run; `pend` keeps how the input promise settled.
PromiseSettles(k, settled) ==
    /\ cells[k].op = "fromPromise"
    /\ cells[k].pc = "start"
    /\ LET out == IF cells[k].cls = "Result"
                  THEN ResultAsync_fromPromise(cells[k].efn, settled)
                  ELSE OptionAsync_fromPromise(settled)
       IN /\ cells' = [cells EXCEPT ![k] = After([@ EXCEPT !.pend = settled], out)]
          /\ calls' = Logged(k, out)
          /\ order' = Append(order, k)
          /\ UNCHANGED <<heap, ret>>

\* The ways an input promise can settle.
Settlements ==
    [st : {"fulfilled"}, val : Vals] \cup [st : {"rejected"}, val : Vals]

---------------------------------------------------------------------------
(* Caller-supplied callbacks.  A callback is an input of the program; the   *)
(* model draws it from a few named behaviours.                             *)

\* Callbacks `(value) => MaybeAsync<U>` of map, mapErr, zipWith:
\*   "inc"      returns value + 1;
\*   "incAsync" returns a promise that is fulfilled with value + 1;
\*   "throws"   throws; "rejects" returns a promise that is rejected.
ValueFns == {"inc", "incAsync", "throws", "rejects"}

Thrown == CHOOSE e \in Reasons : TRUE

fnValue(f, x) ==
    CASE f = "inc"      -> [how |-> "return", st |-> "fulfilled", val |-> x + 1]
      [] f = "incAsync" -> [how |-> "return", st |-> "fulfilled", val |-> x + 1]
      [] f = "throws"   -> [how |-> "throw", st |-> "rejected", val |-> Thrown]
      [] f = "rejects"  -> [how |-> "return", st |-> "rejected", val |-> Thrown]

\* Callbacks `(value) => MaybeAsync<boolean>` of filter.
PredicateFns == {"odd", "oddAsync", "throws", "rejects"}

fnPredicate(f, x) ==
    CASE f = "odd"      -> [how |-> "return", st |-> "fulfilled", val |-> x % 2 = 1]
      [] f = "oddAsync" -> [how |-> "return", st |-> "fulfilled", val |-> x % 2 = 1]
      [] f = "throws"   -> [how |-> "throw", st |-> "rejected", val |-> Thrown]
      [] f = "rejects"  -> [how |-> "return", st |-> "rejected", val |-> Thrown]

\* Callbacks `(value) => void` of inspect / inspectErr.
EffectFns == {"log", "throws"}

fnEffect(f, x) ==
    CASE f = "log"    -> [how |-> "return", st |-> "fulfilled", val |-> undefined]
      [] f = "throws" -> [how |-> "throw", st |-> "rejected", val |-> Thrown]

\* Callbacks of andThen / orElse, by what they return: the present variant of
\* value + 1 or the absent variant (Err(value + 1), None), given as a plain
\* sum-type value, as a promise of one ("P") or as an async wrapper ("W").
BindFns ==
    {"present", "absent", "presentP", "absentP", "presentW", "absentW",
     "throws", "rejects"}

Present(cls, v) == IF cls = "Result" THEN Ok(v) ELSE Some(v)

AbsentOf(cls, e) == IF cls = "Result" THEN Err(e) ELSE None

fnBind(cls, f, x) ==
    CASE f = "present"  ->
             [how |-> "return", form |-> "plain", st |-> "fulfilled", val |-> Present(cls, x + 1)]
      [] f = "absent"   ->
             [how |-> "return", form |-> "plain", st |-> "fulfilled", val |-> AbsentOf(cls, x + 1)]
      [] f = "presentP" ->
             [how |-> "return", form |-> "promise", st |-> "fulfilled", val |-> Present(cls, x + 1)]
      [] f = "absentP"  ->
             [how |-> "return", form |-> "promise", st |-> "fulfilled", val |-> AbsentOf(cls, x + 1)]
      [] f = "presentW" ->
             [how |-> "return", form |-> "wrapper", st |-> "fulfilled", val |-> Present(cls, x + 1)]
      [] f = "absentW"  ->
             [how |-> "return", form |-> "wrapper", st |-> "fulfilled", val |-> AbsentOf(cls, x + 1)]
      [] f = "throws"   ->
             [how |-> "throw", form |-> "plain", st |-> "rejected", val |-> Thrown]
      [] f = "rejects"  ->
             [how |-> "return", form |-> "promise", st |-> "rejected", val |-> Thrown]

\* `await fn(value)`: the callback runs now; unless it throws, the continuation
\* is suspended on what it returned (a plain value is awaited as well).
AwaitCall(f, x, r) ==
    Calling(f, x, IF r.how = "throw" THEN Throw(r.val)
                  ELSE Await([st |-> r.st, val |-> r.val]))

\* A return that hands over a returned wrapper as the resolution itself.
ReturnCall_Nests(f, x, next) ==
    Calling(f, x, IF next.how = "throw" THEN Throw(next.val)
                  ELSE IF next.form = "wrapper" THEN Return([tag |-> "Wrapper", value |-> next.val])
                  ELSE IF next.form = "promise" THEN Await([st |-> next.st, val |-> next.val])
                  ELSE Return(next.val))

\* `const next = fn(value); if (next instanceof XAsync) return next.promise;
\* return next;` in an async function: a plain value fulfils the promise now, a
\* promise (the wrapper's own or the returned one) is adopted when it settles.
ReturnCall(f, x, next) ==
    Calling(f, x, IF next.how = "throw" THEN Throw(next.val)
                  ELSE IF next.form = "wrapper" THEN Await([st |-> next.st, val |-> next.val])
                  ELSE IF next.form = "promise" THEN Await([st |-> next.st, val |-> next.val])
                  ELSE Return(next.val))

\* The continuation resumes with what it awaited: a rejection is thrown at the
\* `await`, a value goes on to `then`.
Resumed(awaited, v) == IF awaited.st = "rejected" THEN Throw(awaited.val) ELSE Return(v)

First(awaited) == awaited.st = "none"

---------------------------------------------------------------------------
(* Constructors over a function that may throw *)

\* Thunks `() => MaybeAsync<T>` handed to try, by what they do with the value
\* `v` they are built around: return it, return a promise fulfilled with it,
\* throw it, or return a promise rejected with it.
ThunkFns == {"gives", "givesAsync", "throws", "rejects"}

fnThunk(f, v) ==
    CASE f = "gives"      -> [how |-> "return", st |-> "fulfilled", val |-> v]
      [] f = "givesAsync" -> [how |-> "return", st |-> "fulfilled", val |-> v]
      [] f = "throws"     -> [how |-> "throw", st |-> "rejected", val |-> v]
      [] f = "rejects"    -> [how |-> "return", st |-> "rejected", val |-> v]

\* The catch block of ResultAsync.try.
ResultAsync_try_catch(efn, error) ==
    IF efn # NoFn
    THEN LET mapped == errorFn(efn, error) IN
         Calling(efn, error, IF mapped.how = "throw" THEN Throw(mapped.val)
                             ELSE Return(Err(mapped.val)))
    ELSE Return(Err(error))

\* try whose function block only guards the call: a rejection met at the
\* `await` leaves the async function.
ResultAsync_try_CatchesCallOnly(c, awaited) ==
    IF First(awaited)
    THEN LET r == fnThunk(c.fn, c.gives) IN
         Calling(c.fn, undefined,
                 IF r.how = "throw" THEN ResultAsync_try_catch(c.efn, r.val)
                 ELSE Await([st |-> r.st, val |-> r.val]))
    ELSE Resumed(awaited, Ok(awaited.val))

\* ResultAsync.try: the async function `try { const value = await fn(); return
\* Ok(value) } catch (error) { return Err(errorFn ? errorFn(error) : error) }`,
\* started by the call itself.  fn() runs at once; what it returns is awaited.
ResultAsync_try(c, awaited) ==
    IF First(awaited)
    THEN LET r == fnThunk(c.fn, c.gives) IN
         Calling(c.fn, undefined,
                 IF r.how = "throw" THEN ResultAsync_try_catch(c.efn, r.val)
                 ELSE Await([st |-> r.st, val |-> r.val]))
    ELSE IF awaited.st = "rejected"
         THEN ResultAsync_try_catch(c.efn, awaited.val)
         ELSE Return(Ok(awaited.val))

\* OptionAsync.try: the same with `catch { return None() }`.
OptionAsync_try(c, awaited) ==
    IF First(awaited)
    THEN LET r == fnThunk(c.fn, c.gives) IN
         Calling(c.fn, undefined,
                 IF r.how = "throw" THEN Return(None)
                 ELSE Await([st |-> r.st, val |-> r.val]))
    ELSE IF awaited.st = "rejected" THEN Return(None) ELSE Return(Some(awaited.val))

\* try that returns a wrapper without having started the async function.
Try_Deferred(cls, fn, v, efn) ==
    Create([Blank EXCEPT !.cls = cls, !.op = "try", !.fn = fn, !.gives = v,
                         !.efn = efn], Pending)

\* The call X.try(fn, errorFn?) runs the async function up to its first
\* suspension and returns the wrapper.
Try(cls, fn, v, efn) ==
    LET c == [Blank EXCEPT !.cls = cls, !.op = "try", !.fn = fn, !.gives = v,
                           !.efn = efn]
    IN Create(c, IF cls = "Result" THEN ResultAsync_try(c, NotYet)
                 ELSE OptionAsync_try(c, NotYet))

\* The async function of try resumes after `await fn()`.
TryResume(k) ==
    /\ cells[k].op = "try"
    /\ cells[k].pc = "awaitFn"
    /\ Commit(k, IF cells[k].cls = "Result"
                 THEN ResultAsync_try(cells[k], cells[k].pend)
                 ELSE OptionAsync_try(cells[k], cells[k].pend))

---------------------------------------------------------------------------
(* ResultAsync: the continuations the chaining methods attach with          *)
(* `this.promise.then(...)`.  `result` is what this.promise resolved to;    *)
(* `awaited` is NotYet when the continuation starts and the awaited outcome *)
(* when it resumes after its `await`.                                      *)

\* map with the variant test lost: the callback is applied to an Err payload too.
ResultAsync_map_MapsErr(c, result, awaited) ==
    IF First(awaited)
    THEN AwaitCall(c.fn, result.value, fnValue(c.fn, result.value))
    ELSE Resumed(awaited, IF is_ok(result) THEN Ok(awaited.val) ELSE Err(awaited.val))

ResultAsync_map(c, result, awaited) ==
    IF is_ok(result)
    THEN IF First(awaited)
         THEN AwaitCall(c.fn, result.value, fnValue(c.fn, result.value))
         ELSE Resumed(awaited, Ok(awaited.val))
    ELSE Return(Err(result.value))

ResultAsync_mapErr(c, result, awaited) ==
    IF is_err(result)
    THEN IF First(awaited)
         THEN AwaitCall(c.fn, result.value, fnValue(c.fn, result.value))
         ELSE Resumed(awaited, Err(awaited.val))
    ELSE Return(Ok(result.value))

\* andThen that rebuilds the Err from a fixed payload instead of result.value.
ResultAsync_andThen_DropsPayload(c, result, awaited) ==
    IF is_ok(result)
    THEN IF First(awaited)
         THEN ReturnCall(c.fn, result.value, fnBind("Result", c.fn, result.value))
         ELSE Resumed(awaited, awaited.val)
    ELSE Return(Err(undefined))

ResultAsync_andThen(c, result, awaited) ==
    IF is_ok(result)
    THEN IF First(awaited)
         THEN ReturnCall(c.fn, result.value, fnBind("Result", c.fn, result.value))
         ELSE Resumed(awaited, awaited.val)
    ELSE Return(Err(result.value))

ResultAsync_orElse(c, result, awaited) ==
    IF is_err(result)
    THEN IF First(awaited)
         THEN ReturnCall(c.fn, result.value, fnBind("Result", c.fn, result.value))
         ELSE Resumed(awaited, awaited.val)
    ELSE Return(Ok(result.value))

\* and that is gated the way or is.
ResultAsync_and_GatedOnErr(c, result, awaited) ==
    IF is_err(result)
    THEN IF First(awaited) THEN AwaitCell(c.oth) ELSE Resumed(awaited, awaited.val)
    ELSE Return(Ok(result.value))

ResultAsync_and(c, result, awaited) ==
    IF is_ok(result)
    THEN IF First(awaited) THEN AwaitCell(c.oth) ELSE Resumed(awaited, awaited.val)
    ELSE Return(Err(result.value))

ResultAsync_or(c, result, awaited) ==
    IF is_err(result)
    THEN IF First(awaited) THEN AwaitCell(c.oth) ELSE Resumed(awaited, awaited.val)
    ELSE Return(Ok(result.value))

\* inspect that calls fn whatever the variant.
ResultAsync_inspect_AnyVariant(c, result, awaited) ==
    Calling(c.fn, result.value, Return(result))

\* inspect / inspectErr attach a plain (not async) handler: the callback's
\* return value is dropped and the same result is handed on.
ResultAsync_inspect(c, result, awaited) ==
    IF is_ok(result)
    THEN LET r == fnEffect(c.fn, result.value) IN
         Calling(c.fn, result.value,
                 IF r.how = "throw" THEN Throw(r.val) ELSE Return(result))
    ELSE Return(result)

ResultAsync_inspectErr(c, result, awaited) ==
    IF is_err(result)
    THEN LET r == fnEffect(c.fn, result.value) IN
         Calling(c.fn, result.value,
                 IF r.how = "throw" THEN Throw(r.val) ELSE Return(result))
    ELSE Return(result)

\* flatten: the handler returns the payload of an Ok as the new resolution.
ResultAsync_flatten(c, result, awaited) ==
    IF is_ok(result) THEN Return(result.value) ELSE Return(Err(result.value))

---------------------------------------------------------------------------
(* OptionAsync: the continuations its chaining methods attach.              *)

OptionAsync_map(c, option, awaited) ==
    IF is_some(option)
    THEN IF First(awaited)
         THEN AwaitCall(c.fn, option.value, fnValue(c.fn, option.value))
         ELSE Resumed(awaited, Some(awaited.val))
    ELSE Return(None)

OptionAsync_andThen(c, option, awaited) ==
    IF is_some(option)
    THEN IF First(awaited)
         THEN ReturnCall(c.fn, option.value, fnBind("Option", c.fn, option.value))
         ELSE Resumed(awaited, awaited.val)
    ELSE Return(None)

\* orElse that evaluates fn() whatever the variant, and uses it only on None.
OptionAsync_orElse_Eager(c, option, awaited) ==
    IF First(awaited)
    THEN IF is_none(option)
         THEN ReturnCall(c.fn, undefined, fnBind("Option", c.fn, undefined))
         ELSE Calling(c.fn, undefined, Return(option))
    ELSE Resumed(awaited, awaited.val)

\* orElse calls fn() without argument.
OptionAsync_orElse(c, option, awaited) ==
    IF is_none(option)
    THEN IF First(awaited)
         THEN ReturnCall(c.fn, undefined, fnBind("Option", c.fn, undefined))
         ELSE Resumed(awaited, awaited.val)
    ELSE Return(option)

OptionAsync_and(c, option, awaited) ==
    IF is_some(option)
    THEN IF First(awaited) THEN AwaitCell(c.oth) ELSE Resumed(awaited, awaited.val)
    ELSE Return(None)

OptionAsync_or(c, option, awaited) ==
    IF is_none(option)
    THEN IF First(awaited) THEN AwaitCell(c.oth) ELSE Resumed(awaited, awaited.val)
    ELSE Return(option)

OptionAsync_filter(c, option, awaited) ==
    IF is_some(option)
    THEN IF First(awaited)
         THEN AwaitCall(c.fn, option.value, fnPredicate(c.fn, option.value))
         ELSE Resumed(awaited, IF awaited.st = "fulfilled" /\ awaited.val THEN option ELSE None)
    ELSE Return(None)
\* inspect that hands on a copy of the Option it was given.
OptionAsync_inspect_Copies(c, option, awaited) ==
    IF is_some(option)
    THEN LET r == fnEffect(c.fn, option.value) IN
         Calling(c.fn, option.value,
                 IF r.how = "throw" THEN Throw(r.val) ELSE Return(Some(option.value)))
    ELSE Return(None)

OptionAsync_inspect(c, option, awaited) ==
    IF is_some(option)
    THEN LET r == fnEffect(c.fn, option.value) IN
         Calling(c.fn, option.value,
                 IF r.how = "throw" THEN Throw(r.val) ELSE Return(option))
    ELSE Return(option)

OptionAsync_flatten(c, option, awaited) ==
    IF is_some(option) THEN Return(option.value) ELSE Return(None)

\* zip that takes the other payload with unwrap() instead of testing is_some().
OptionAsync_zip_Unwraps(c, option, awaited) ==
    IF is_some(option)
    THEN IF First(awaited) THEN AwaitCell(c.oth)
         ELSE IF awaited.st = "rejected" THEN Throw(awaited.val)
         ELSE IF is_some(awaited.val)
              THEN Return(Some(<<option.value, awaited.val.value>>))
              ELSE Throw(-2)
    ELSE Return(None)

\* zip: `await other.promise` when this is Some; a pair when both are Some.
OptionAsync_zip(c, option, awaited) ==
    IF is_some(option)
    THEN IF First(awaited) THEN AwaitCell(c.oth)
         ELSE IF awaited.st = "rejected" THEN Throw(awaited.val)
         ELSE IF is_some(awaited.val)
              THEN Return(Some(<<option.value, awaited.val.value>>))
              ELSE Return(None)
    ELSE Return(None)

\* zipWith: `await other.promise`, then `await fn(a, b)`; a callback of two
\* arguments is one of ValueFns applied to their sum.
OptionAsync_zipWith(c, option, awaited) ==
    IF is_some(option)
    THEN IF First(awaited) THEN AwaitCell(c.oth)
         ELSE IF awaited.st = "rejected" THEN Throw(awaited.val)
         ELSE IF c.pc = "awaitCell"
              THEN IF is_some(awaited.val)
                   THEN AwaitCall(c.fn, option.value + awaited.val.value,
                                  fnValue(c.fn, option.value + awaited.val.value))
                   ELSE Return(None)
              ELSE Return(Some(awaited.val))
    ELSE Return(None)

---------------------------------------------------------------------------
(* Extraction: the synchronous expect / unwrap of the four variant classes, *)
(* and the async methods that delegate to them.                            *)

\* `new Error(message)`.
Error(message) == [name |-> "Error", message |-> message]

ResultOk_expect(self, msg) == Return(self.value)

ResultOk_unwrap(self) == Return(self.value)

\* expect with the message built from msg and the payload instead of msg alone.
ResultErr_expect_AppendsValue(self, msg) == Throw(Error(<<msg, ": ", self.value>>))

ResultErr_expect(self, msg) == Throw(Error(msg))

\* The message is the fixed text followed by the payload.
ResultErr_unwrap(self) ==
    Throw(Error(<<"Called Result.unwrap() on an Err value: ", self.value>>))

OptionSome_expect(self, msg) == Return(self.value)

OptionSome_unwrap(self) == Return(self.value)

OptionNone_expect(self, msg) == Throw(Error(msg))

OptionNone_unwrap(self) == Throw(Error(<<"Called Option.unwrap() on a None value">>))

\* `const result = await this.promise; return result.expect(msg);`
ResultAsync_expect(c, result) ==
    IF is_ok(result) THEN ResultOk_expect(result, c.msg) ELSE ResultErr_expect(result, c.msg)

\* `const result = await this.promise; return result.unwrap();`
ResultAsync_unwrap(c, result) ==
    IF is_ok(result) THEN ResultOk_unwrap(result) ELSE ResultErr_unwrap(result)

OptionAsync_expect(c, option) ==
    IF is_some(option) THEN OptionSome_expect(option, c.msg)
    ELSE OptionNone_expect(option, c.msg)

OptionAsync_unwrap(c, option) ==
    IF is_some(option) THEN OptionSome_unwrap(option) ELSE OptionNone_unwrap(option)

\* then() that hands the result to the first await only.
ResultAsync_then_FirstOnly(c, result) ==
    IF \E j \in 1..Len(cells) :
           cells[j].op = "then" /\ cells[j].src = c.src /\ cells[j].st # "pending"
    THEN Return(Err(undefined))
    ELSE Return(result)

\* `await wrapper` goes through then(): the awaiting code resumes with what
\* this.promise was fulfilled with.
ResultAsync_then(c, result) == Return(result)

OptionAsync_then(c, option) == Return(option)

\* Handlers of match, by what they return: the payload plus one (the Ok / Some
\* handlers) or plus two (the Err / None handlers), plainly or as a promise.
MatchFns == {"onPresent", "onPresentAsync", "onAbsent", "onAbsentAsync"}

fnMatch(f, x) ==
    CASE f = "onPresent"      ->
             [how |-> "return", form |-> "plain", st |-> "fulfilled", val |-> x + 1]
      [] f = "onPresentAsync" ->
             [how |-> "return", form |-> "promise", st |-> "fulfilled", val |-> x + 1]
      [] f = "onAbsent"       ->
             [how |-> "return", form |-> "plain", st |-> "fulfilled", val |-> x + 2]
      [] f = "onAbsentAsync"  ->
             [how |-> "return", form |-> "promise", st |-> "fulfilled", val |-> x + 2]

\* match that always dispatches to the Err handler.
ResultAsync_match_ErrOnly(c, result, awaited) ==
    IF First(awaited)
    THEN ReturnCall(c.efn, result.value, fnMatch(c.efn, result.value))
    ELSE Resumed(awaited, awaited.val)

\* `const result = await this.promise; if (result.is_ok()) return
\* handlers.Ok(result.value); return handlers.Err(result.value);` in an async
\* function: c.fn is the Ok handler, c.efn the Err handler.
ResultAsync_match(c, result, awaited) ==
    IF First(awaited)
    THEN IF is_ok(result)
         THEN ReturnCall(c.fn, result.value, fnMatch(c.fn, result.value))
         ELSE ReturnCall(c.efn, result.value, fnMatch(c.efn, result.value))
    ELSE Resumed(awaited, awaited.val)

\* The same with handlers.Some(option.value) and handlers.None(), which gets no
\* argument.
OptionAsync_match(c, option, awaited) ==
    IF First(awaited)
    THEN IF is_some(option)
         THEN ReturnCall(c.fn, option.value, fnMatch(c.fn, option.value))
         ELSE ReturnCall(c.efn, undefined, fnMatch(c.efn, undefined))
    ELSE Resumed(awaited, awaited.val)

TerminalOps == {"then", "unwrap", "expect", "match"}

---------------------------------------------------------------------------
(* The promise machinery shared by all chaining methods *)

\* The continuation method `c.op` of class `c.cls` attached.
Handler(c, value, awaited) ==
    IF c.op \in TerminalOps
    THEN IF cells[c.src].cls = "Result"
         THEN CASE c.op = "then"   -> ResultAsync_then(c, value)
                [] c.op = "unwrap" -> ResultAsync_unwrap(c, value)
                [] c.op = "expect" -> ResultAsync_expect(c, value)
                [] c.op = "match"  -> ResultAsync_match(c, value, awaited)
         ELSE CASE c.op = "then"   -> OptionAsync_then(c, value)
                [] c.op = "unwrap" -> OptionAsync_unwrap(c, value)
                [] c.op = "expect" -> OptionAsync_expect(c, value)
                [] c.op = "match"  -> OptionAsync_match(c, value, awaited)
    ELSE IF c.cls = "Result"
    THEN CASE c.op = "map"        -> ResultAsync_map(c, value, awaited)
           [] c.op = "mapErr"     -> ResultAsync_mapErr(c, value, awaited)
           [] c.op = "andThen"    -> ResultAsync_andThen(c, value, awaited)
           [] c.op = "orElse"     -> ResultAsync_orElse(c, value, awaited)
           [] c.op = "and"        -> ResultAsync_and(c, value, awaited)
           [] c.op = "or"         -> ResultAsync_or(c, value, awaited)
           [] c.op = "inspect"    -> ResultAsync_inspect(c, value, awaited)
           [] c.op = "inspectErr" -> ResultAsync_inspectErr(c, value, awaited)
           [] c.op = "flatten"    -> ResultAsync_flatten(c, value, awaited)
    ELSE CASE c.op = "map"        -> OptionAsync_map(c, value, awaited)
           [] c.op = "andThen"    -> OptionAsync_andThen(c, value, awaited)
           [] c.op = "orElse"     -> OptionAsync_orElse(c, value, awaited)
           [] c.op = "and"        -> OptionAsync_and(c, value, awaited)
           [] c.op = "or"         -> OptionAsync_or(c, value, awaited)
           [] c.op = "filter"     -> OptionAsync_filter(c, value, awaited)
           [] c.op = "inspect"    -> OptionAsync_inspect(c, value, awaited)
           [] c.op = "flatten"    -> OptionAsync_flatten(c, value, awaited)
           [] c.op = "zip"        -> OptionAsync_zip(c, value, awaited)
           [] c.op = "zipWith"    -> OptionAsync_zipWith(c, value, awaited)

ChainOps ==
    {"map", "mapErr", "andThen", "orElse", "and", "or", "filter", "inspect",
     "inspectErr", "flatten", "zip", "zipWith"}

\* A reaction that hands a rejection to orElse as if it were an Err.
Reaction_OrElseRecovers(c, source) ==
    IF source.st = "rejected"
    THEN IF c.op = "orElse" /\ c.cls = "Result"
         THEN Handler(c, Err(source.val), NotYet)
         ELSE Throw(source.val)
    ELSE Handler(c, source.val, NotYet)

\* `this.promise.then(onFulfilled)`: the reaction of promise k to the settling
\* of the promise it was attached to.  A rejection passes through (there is no
\* onRejected); a fulfilment starts the continuation.
Reaction(c, source) ==
    IF source.st = "rejected" THEN Throw(source.val)
    ELSE Handler(c, source.val, NotYet)

\* Reactions attached to one promise taken in any order.
EarlierStarted_AnyOrder(k) == k \in Ids

\* The reactions attached to one promise run in the order they were attached.
EarlierStarted(k) ==
    \A j \in 1..(k - 1) :
        (cells[j].src = cells[k].src /\ cells[j].op \in ChainOps \cup TerminalOps)
            => cells[j].pc # "start"

\* The promise wrapper k was chained on has settled: its reaction job runs.
Job(k) ==
    /\ cells[k].op \in ChainOps \cup TerminalOps
    /\ cells[k].pc = "start"
    /\ Settled(cells[cells[k].src])
    /\ EarlierStarted(k)
    /\ Commit(k, Reaction(cells[k], Outcome(cells[cells[k].src])))

\* The continuation of wrapper k resumes after `await fn(...)`, or once the
\* promise a callback returned has settled.
ResumeFn(k) ==
    /\ cells[k].op \in ChainOps \cup {"match"}
    /\ cells[k].pc = "awaitFn"
    /\ Commit(k, Handler(cells[k], cells[cells[k].src].val, cells[k].pend))

\* The continuation of wrapper k resumes once other.promise has settled.
ResumeCell(k) ==
    /\ cells[k].op \in ChainOps
    /\ cells[k].pc = "awaitCell"
    /\ Settled(cells[cells[k].oth])
    /\ Commit(k, Handler(cells[k], cells[cells[k].src].val, Outcome(cells[cells[k].oth])))

---------------------------------------------------------------------------
(* Constructors of already available values *)

\* The payloads of a wrapper by the type it was given: plain values, or values
\* of the same sum type (what flatten takes).
Payloads(cls, ty) ==
    IF ty = "int" THEN Vals
    ELSE {Present(cls, v) : v \in Vals} \cup {AbsentOf(cls, v) : v \in Vals}

SumValues(cls, ty) ==
    {Present(cls, x) : x \in Payloads(cls, ty)} \cup {AbsentOf(cls, e) : e \in Vals}

IsWrapper(k) == k \in Ids /\ cells[k].cls \in {"Result", "Option"}

\* ResultAsync.ok(value) / OptionAsync.some(value): Promise.resolve of the
\* present variant.
Of(cls, ty, value) ==
    Create([Blank EXCEPT !.cls = cls, !.ty = ty,
                         !.op = IF cls = "Result" THEN "ok" ELSE "some"],
           Return(Present(cls, value)))

\* ResultAsync.err(error) / OptionAsync.none().
OfAbsent(cls, ty, error) ==
    Create([Blank EXCEPT !.cls = cls, !.ty = ty,
                         !.op = IF cls = "Result" THEN "err" ELSE "none"],
           Return(AbsentOf(cls, error)))

\* fromResult / fromOption whose promise is fulfilled only later.
From_Pending(cls, ty, form, value) ==
    Create([Blank EXCEPT !.cls = cls, !.ty = ty,
                         !.op = IF cls = "Result" THEN "fromResult" ELSE "fromOption",
                         !.pend = IF form = "plain"
                                  THEN [st |-> "fulfilled", val |-> value] ELSE NotYet],
           Pending)

\* ResultAsync.fromResult(x) / OptionAsync.fromOption(x) is Promise.resolve(x):
\* of a plain sum-type value, a promise fulfilled with it; of a promise, that
\* promise, which settles later.  The cell keeps what it was given in `pend`.
From(cls, ty, form, value) ==
    Create([Blank EXCEPT !.cls = cls, !.ty = ty,
                         !.op = IF cls = "Result" THEN "fromResult" ELSE "fromOption",
                         !.pend = IF form = "plain"
                                  THEN [st |-> "fulfilled", val |-> value] ELSE NotYet],
           IF form = "plain" THEN Return(value) ELSE Pending)

\* The promise handed to fromResult / fromOption settles.
InputSettles(k, settled) ==
    /\ cells[k].op \in {"fromResult", "fromOption"}
    /\ cells[k].pc = "start"
    /\ settled.st = "fulfilled" => settled.val \in SumValues(cells[k].cls, cells[k].ty)
    /\ Commit(k, IF settled.st = "fulfilled" THEN Return(settled.val) ELSE Throw(settled.val))

---------------------------------------------------------------------------
(* The chaining methods: each call returns a new wrapper at once, with the  *)
(* continuation attached to the receiver's promise.                        *)

Chain(src, op, fn, oth, ty) ==
    /\ IsWrapper(src)
    /\ oth # 0 => IsWrapper(oth) /\ cells[oth].cls = cells[src].cls
    /\ Create([Blank EXCEPT !.cls = cells[src].cls, !.op = op, !.src = src,
                            !.fn = fn, !.oth = oth, !.ty = ty], Pending)

Map(src, fn) == cells[src].ty = "int" /\ Chain(src, "map", fn, 0, "int")

MapErr(src, fn) ==
    cells[src].cls = "Result" /\ Chain(src, "mapErr", fn, 0, cells[src].ty)

AndThen(src, fn) == cells[src].ty = "int" /\ Chain(src, "andThen", fn, 0, "int")

OrElse(src, fn) == cells[src].ty = "int" /\ Chain(src, "orElse", fn, 0, "int")

And(src, oth) == Chain(src, "and", NoFn, oth, cells[oth].ty)

Or(src, oth) == cells[oth].ty = cells[src].ty /\ Chain(src, "or", NoFn, oth, cells[src].ty)

Filter(src, fn) ==
    /\ cells[src].cls = "Option" /\ cells[src].ty = "int"
    /\ Chain(src, "filter", fn, 0, "int")

Inspect(src, fn) == Chain(src, "inspect", fn, 0, cells[src].ty)

InspectErr(src, fn) ==
    cells[src].cls = "Result" /\ Chain(src, "inspectErr", fn, 0, cells[src].ty)

Flatten(src) == cells[src].ty = "nested" /\ Chain(src, "flatten", NoFn, 0, "int")

Zip(src, oth) ==
    /\ cells[src].cls = "Option" /\ cells[src].ty = "int" /\ cells[oth].ty = "int"
    /\ Chain(src, "zip", NoFn, oth, "pair")

ZipWith(src, oth, fn) ==
    /\ cells[src].cls = "Option" /\ cells[src].ty = "int" /\ cells[oth].ty = "int"
    /\ Chain(src, "zipWith", fn, oth, "int")

\* The extraction methods return a plain promise, settled once the receiver's
\* promise has been.
Extract(src, op, msg) ==
    /\ IsWrapper(src)
    /\ Create([Blank EXCEPT !.op = op, !.src = src, !.msg = msg], Pending)

\* The messages callers pass to expect.
Msgs == {"boom", "no value"}

Unwrap(src) == Extract(src, "unwrap", "-")

Expect(src, msg) == Extract(src, "expect", msg)

\* `await wrapper`.
Then(src) == Extract(src, "then", "-")

\* wrapper.match({Ok: fn, Err: efn}) / wrapper.match({Some: fn, None: efn}).
Match(src, fn, efn) ==
    /\ IsWrapper(src)
    /\ Create([Blank EXCEPT !.op = "match", !.src = src, !.fn = fn, !.efn = efn], Pending)

---------------------------------------------------------------------------
(* Static aggregation combinators *)

\* ResultAsync.all with the early return on Err lost: the loop drops the failure
\* and goes on collecting.
ResultAsync_all_NoShortCircuit(c, awaited) ==
    IF awaited.st = "rejected" THEN Throw(awaited.val)
    ELSE LET result == awaited.val
             values == IF is_err(result) THEN c.acc ELSE Append(c.acc, result.value)
         IN IF c.i = Len(c.hs) THEN Return(Ok(values))
            ELSE Continue([c EXCEPT !.acc = values, !.i = c.i + 1])

\* OptionAsync.all with `unshift` for `push`: payloads end up in reverse order.
OptionAsync_all_Unshift(c, awaited) ==
    IF awaited.st = "rejected" THEN Throw(awaited.val)
    ELSE LET option == awaited.val IN
         IF is_none(option) THEN Return(None)
         ELSE LET values == <<option.value>> \o c.acc IN
              IF c.i = Len(c.hs) THEN Return(Some(values))
              ELSE Continue([c EXCEPT !.acc = values, !.i = c.i + 1])

\* ResultAsync.allSettled that stops at the first Err, as `all` does.
ResultAsync_allSettled_ShortCircuit(c, awaited) ==
    IF awaited.st = "rejected" THEN Throw(awaited.val)
    ELSE LET result == awaited.val IN
         IF is_err(result) THEN Return(Err(<<result.value>>))
         ELSE LET values == Append(c.acc, result.value) IN
              IF c.i = Len(c.hs) THEN Return(Ok(values))
              ELSE Continue([c EXCEPT !.acc = values, !.i = c.i + 1])

\* One iteration of the loop of ResultAsync.all, resumed after
\* `await resultAsync` with the handle's outcome: an Err is returned as it is,
\* an Ok payload is pushed; after the last handle, Ok(values).
ResultAsync_all(c, awaited) ==
    IF awaited.st = "rejected" THEN Throw(awaited.val)
    ELSE LET result == awaited.val IN
         IF is_err(result) THEN Return(result)
         ELSE LET values == Append(c.acc, result.value) IN
              IF c.i = Len(c.hs) THEN Return(Ok(values))
              ELSE Continue([c EXCEPT !.acc = values, !.i = c.i + 1])

\* OptionAsync.all that notes a None and goes on to await the remaining handles
\* before it returns None().
OptionAsync_all_AwaitsAll(c, awaited) ==
    IF awaited.st = "rejected" THEN Throw(awaited.val)
    ELSE LET option == awaited.val
             nones == IF is_none(option) THEN Append(c.errs, c.i) ELSE c.errs
             values == IF is_none(option) THEN c.acc ELSE Append(c.acc, option.value)
         IN IF c.i = Len(c.hs)
            THEN IF Len(nones) > 0 THEN Return(None) ELSE Return(Some(values))
            ELSE Continue([c EXCEPT !.acc = values, !.errs = nones, !.i = c.i + 1])

\* One iteration of the loop of OptionAsync.all: a None gives a new None().
OptionAsync_all(c, awaited) ==
    IF awaited.st = "rejected" THEN Throw(awaited.val)
    ELSE LET option == awaited.val IN
         IF is_none(option) THEN Return(None)
         ELSE LET values == Append(c.acc, option.value) IN
              IF c.i = Len(c.hs) THEN Return(Some(values))
              ELSE Continue([c EXCEPT !.acc = values, !.i = c.i + 1])

\* One iteration of the loop of ResultAsync.allSettled: both channels are
\* collected; after the last handle, Err(errors) if there is any error.
ResultAsync_allSettled(c, awaited) ==
    IF awaited.st = "rejected" THEN Throw(awaited.val)
    ELSE LET result == awaited.val
             errors == IF is_err(result) THEN Append(c.errs, result.value) ELSE c.errs
             values == IF is_err(result) THEN c.acc ELSE Append(c.acc, result.value)
         IN IF c.i = Len(c.hs)
            THEN IF Len(errors) > 0 THEN Return(Err(errors)) ELSE Return(Ok(values))
            ELSE Continue([c EXCEPT !.acc = values, !.errs = errors, !.i = c.i + 1])

\* The list of handles a caller passes: the wrappers built so far, in order.
Handles(cls) == [j \in 1..Cardinality(Wrappers(cls)) |-> j]

\* The call X.all(handles) / ResultAsync.allSettled(handles): the async body runs
\* up to its first `await`; over an empty list it returns at once.
Aggregate(cls, op, hs) ==
    /\ \A j \in 1..Len(hs) : hs[j] \in Wrappers(cls)
    /\ LET c == [Blank EXCEPT !.cls = cls, !.op = op, !.hs = hs, !.i = 1,
                              !.pc = "awaitHandle"]
       IN Create(c, IF Len(hs) = 0
                    THEN Return(IF cls = "Result" THEN Ok(<<>>) ELSE Some(<<>>))
                    ELSE Pending)

\* A loop that wakes on any handle that has resolved to the absent variant.
Awaited_FailFast(c) ==
    LET failed == {j \in 1..Len(c.hs) :
                      /\ cells[c.hs[j]].st = "fulfilled"
                      /\ cells[c.hs[j]].val.tag \in {"Err", "None"}}
    IN IF failed = {} THEN c.hs[c.i] ELSE c.hs[CHOOSE j \in failed : TRUE]

\* The handle the loop is suspended on.
Awaited(c) == c.hs[c.i]

\* The awaited handle has settled and the loop resumes for one iteration.
AggregateStep(k) ==
    /\ cells[k].pc = "awaitHandle"
    /\ Settled(cells[Awaited(cells[k])])
    /\ LET c == cells[k]
           awaited == Outcome(cells[Awaited(c)])
           out == CASE c.op = "allSettled" -> ResultAsync_allSettled(c, awaited)
                    [] c.cls = "Result"    -> ResultAsync_all(c, awaited)
                    [] OTHER               -> OptionAsync_all(c, awaited)
       IN Commit(k, out)

---------------------------------------------------------------------------
(* Aggregation scenario: handles over input promises that settle in any    *)
(* order, and aggregates built over them at any moment.                    *)

InitAgg == cells = <<>> /\ calls = <<>> /\ order = <<>> /\ heap = <<>> /\ ret = NoCall

Aggregates == {k \in Ids : cells[k].op \in {"all", "allSettled"}}

NextAgg ==
    \/ \E cls \in {"Result", "Option"} :
          /\ Len(cells) < MaxHandles
          /\ \A k \in Ids : cells[k].cls = cls
          /\ Aggregates = {}
          /\ FromPromise(cls, NoFn)
    \/ \E k \in Ids, settled \in Settlements : PromiseSettles(k, settled)
    \/ \E cls \in {"Result", "Option"} :
          /\ Aggregates = {}
          /\ Wrappers(cls) = Ids
          /\ Aggregate(cls, "all", Handles(cls))
    \/ /\ Aggregates = {}
       /\ Aggregate("Result", "allSettled", Handles("Result"))
    \/ \E k \in Ids : AggregateStep(k)

SpecAgg == InitAgg /\ [][NextAgg]_vars

---------------------------------------------------------------------------
(* Properties of the aggregation combinators *)

\* Promise a settled, and did so before promise b (which may still be pending).
SettledBefore(a, b) ==
    \E i \in 1..Len(order) :
        /\ order[i] = a
        /\ \A j \in 1..i : order[j] # b

Absent(v) == v.tag \in {"Err", "None"}

\* The handles of aggregate k that have resolved so far, by position in its list.
Resolved(k) == {j \in 1..Len(cells[k].hs) : cells[cells[k].hs[j]].st = "fulfilled"}

\* The value handle number j of aggregate k resolved to.
HandleValue(k, j) == cells[cells[k].hs[j]].val

\* The positions of the handles of aggregate k that resolved to Err / None.
AbsentAt(k) == {j \in Resolved(k) : Absent(HandleValue(k, j))}

Least(S) == CHOOSE j \in S : \A i \in S : j <= i

\* C1: once all(handles) has settled and some handle has resolved to Err / None,
\* the aggregate is resolved to the absent value of the lowest-index such handle
\* (Err with that handle's payload, or None), whatever the order in which the
\* handles settled: an absent handle further down the list that settled earlier
\* never decides.
C1_AllFirstAbsentByIndex ==
    \A k \in Ids :
        (cells[k].op = "all" /\ Settled(cells[k]) /\ AbsentAt(k) # {}) =>
            /\ cells[k].st = "fulfilled"
            /\ Absent(cells[k].val)
            /\ cells[k].val = HandleValue(k, Least(AbsentAt(k)))

\* A ResultAsync.all resolved to the Err of its first handle although the second
\* handle resolved to an Err with another payload, and did so earlier.
C1_Witness ==
    \E k \in Ids :
        /\ cells[k].op = "all" /\ cells[k].cls = "Result" /\ Len(cells[k].hs) >= 2
        /\ cells[k].st = "fulfilled"
        /\ {1, 2} \subseteq AbsentAt(k)
        /\ HandleValue(k, 1) # HandleValue(k, 2)
        /\ SettledBefore(cells[k].hs[2], cells[k].hs[1])
        /\ cells[k].val = HandleValue(k, 1)

RECURSIVE PayloadsOf(_, _, _)
\* The payloads of the handles of aggregate k from position j on whose tag is in
\* `tags`, in list order.
PayloadsOf(k, j, tags) ==
    IF j > Len(cells[k].hs) THEN <<>>
    ELSE (IF HandleValue(k, j).tag \in tags THEN <<HandleValue(k, j).value>> ELSE <<>>)
         \o PayloadsOf(k, j + 1, tags)

\* C2: allSettled never short-circuits. It awaits the handles in list order, so
\* while it waits for handle i the handles before i have settled, and when it has
\* settled every handle has; its value is then Err of all the Err payloads in list
\* order if there is any, and otherwise Ok of all the Ok payloads in list order.
C2_AllSettledCollectsAll ==
    \A k \in Ids :
        cells[k].op = "allSettled" =>
            /\ cells[k].pc = "awaitHandle" =>
                   \A j \in 1..(cells[k].i - 1) : Settled(cells[cells[k].hs[j]])
            /\ Settled(cells[k]) =>
                   /\ Resolved(k) = 1..Len(cells[k].hs)
                   /\ cells[k].st = "fulfilled"
                   /\ IF AbsentAt(k) # {}
                      THEN cells[k].val = Err(PayloadsOf(k, 1, {"Err"}))
                      ELSE cells[k].val = Ok(PayloadsOf(k, 1, {"Ok"}))

\* An allSettled over three handles, an Ok between two Errs, has resolved to the
\* Err of both error payloads.
C2_Witness ==
    \E k \in Ids :
        /\ cells[k].op = "allSettled" /\ Len(cells[k].hs) = 3
        /\ cells[k].st = "fulfilled"
        /\ AbsentAt(k) = {1, 3}
        /\ HandleValue(k, 1).value # HandleValue(k, 3).value
        /\ cells[k].val = Err(<<HandleValue(k, 1).value, HandleValue(k, 3).value>>)

\* C3: when every handle of all(handles) has resolved to Ok / Some, the settled
\* aggregate is Ok / Some of one payload per handle in list order, whatever the
\* order in which the handles settled.
C3_AllSuccessInIndexOrder ==
    \A k \in Ids :
        (/\ cells[k].op = "all" /\ Settled(cells[k])
         /\ Resolved(k) = 1..Len(cells[k].hs)
         /\ AbsentAt(k) = {}) =>
            /\ cells[k].st = "fulfilled"
            /\ ~Absent(cells[k].val)
            /\ cells[k].val.tag = (IF cells[k].cls = "Result" THEN "Ok" ELSE "Some")
            /\ Len(cells[k].val.value) = Len(cells[k].hs)
            /\ \A j \in 1..Len(cells[k].hs) :
                   cells[k].val.value[j] = HandleValue(k, j).value

\* An all over two handles with different payloads, the second settled first,
\* resolved to the payloads in list order.
C3_Witness ==
    \E k \in Ids :
        /\ cells[k].op = "all" /\ Len(cells[k].hs) >= 2
        /\ cells[k].st = "fulfilled" /\ ~Absent(cells[k].val)
        /\ HandleValue(k, 1).value # HandleValue(k, 2).value
        /\ SettledBefore(cells[k].hs[2], cells[k].hs[1])
        /\ cells[k].val.value[1] = HandleValue(k, 1).value
        /\ cells[k].val.value[2] = HandleValue(k, 2).value

---------------------------------------------------------------------------
(* Chaining scenarios: wrappers of one class are built from available       *)
(* values and chained, by calls made at any moment, while the reaction     *)
(* jobs of the promises run.  Each scenario exercises one family of        *)
(* methods with every behaviour of the callbacks.                          *)

InitChain == cells = <<>> /\ calls = <<>> /\ order = <<>> /\ heap = <<>> /\ ret = NoCall

Classes == {"Result", "Option"}

\* A program uses one of the two classes.
SameClass(cls) == \A k \in Ids : IsWrapper(k) => cells[k].cls = cls

Room == Len(cells) < MaxCells

\* andThen over ok / err / some / none.
NextAndThen ==
    \/ \E cls \in Classes, v \in Vals : Room /\ SameClass(cls) /\ Of(cls, "int", v)
    \/ \E cls \in Classes, e \in Vals : Room /\ SameClass(cls) /\ OfAbsent(cls, "int", e)
    \/ \E src \in Ids, fn \in BindFns : Room /\ AndThen(src, fn)
    \/ \E k \in Ids : Job(k)
    \/ \E k \in Ids : ResumeFn(k)

SpecAndThen == InitChain /\ [][NextAndThen]_vars

\* orElse over ok / err / some / none.
NextOrElse ==
    \/ \E cls \in Classes, v \in Vals : Room /\ SameClass(cls) /\ Of(cls, "int", v)
    \/ \E cls \in Classes, e \in Vals : Room /\ SameClass(cls) /\ OfAbsent(cls, "int", e)
    \/ \E src \in Ids, fn \in BindFns : Room /\ OrElse(src, fn)
    \/ \E k \in Ids : Job(k)
    \/ \E k \in Ids : ResumeFn(k)

SpecOrElse == InitChain /\ [][NextOrElse]_vars

\* map and mapErr over ok / err / some / none.
NextMap ==
    \/ \E cls \in Classes, v \in Vals : Room /\ SameClass(cls) /\ Of(cls, "int", v)
    \/ \E cls \in Classes, e \in Vals : Room /\ SameClass(cls) /\ OfAbsent(cls, "int", e)
    \/ \E src \in Ids, fn \in ValueFns : Room /\ Map(src, fn)
    \/ \E src \in Ids, fn \in ValueFns : Room /\ MapErr(src, fn)
    \/ \E k \in Ids : Job(k)
    \/ \E k \in Ids : ResumeFn(k)

SpecMap == InitChain /\ [][NextMap]_vars

---------------------------------------------------------------------------
(* Properties of the chaining methods *)

\* The number of times the callback of wrapper k has been invoked.
CallCount(k) == Cardinality({i \in 1..Len(calls) : calls[i].cell = k})

\* The arguments the callback of wrapper k was invoked with.
CallArgs(k) == {calls[i].arg : i \in {j \in 1..Len(calls) : calls[j].cell = k}}

\* The continuation of wrapper k has started.
Started(k) == cells[k].pc # "start"

\* What the promise wrapper k was chained on resolved to.
Source(k) == cells[cells[k].src]

RECURSIVE AndThenChain(_, _)
\* Wrapper j comes from wrapper k by one or more andThen steps.
AndThenChain(j, k) ==
    /\ cells[j].op = "andThen"
    /\ (cells[j].src = k \/ AndThenChain(cells[j].src, k))

\* C4: andThen on a wrapper resolved to Err(e) / None never invokes its callback
\* and resolves to Err(e) with the same payload / None; so along a chain of
\* andThen steps below a wrapper resolved to Err / None no callback ever runs and
\* every wrapper of the chain that has settled is resolved to that same value.
C4_AndThenShortCircuits ==
    \A k \in Ids, j \in Ids :
        (/\ cells[k].st = "fulfilled" /\ Absent(cells[k].val)
         /\ AndThenChain(j, k)) =>
            /\ CallCount(j) = 0
            /\ cells[j].pc # "awaitFn"
            /\ Settled(cells[j]) =>
                   cells[j].st = "fulfilled" /\ cells[j].val = cells[k].val

\* ok(v).andThen(f).andThen(g) with f returning an Err: f ran, g did not, and the
\* last wrapper is resolved to the Err f produced.
C4_Witness ==
    \E k \in Ids, j \in Ids :
        /\ cells[k].op = "andThen" /\ cells[j].op = "andThen" /\ cells[j].src = k
        /\ cells[k].cls = "Result"
        /\ Source(k).st = "fulfilled" /\ is_ok(Source(k).val)
        /\ cells[k].st = "fulfilled" /\ is_err(cells[k].val)
        /\ CallCount(k) = 1 /\ CallCount(j) = 0
        /\ cells[j].st = "fulfilled" /\ cells[j].val = cells[k].val

\* C5: orElse invokes its callback only when the receiver resolved to Err(e) /
\* None, once, and the new wrapper then settles as what the callback returned
\* does (a plain value, a promise or a wrapper: its resolved value); when the
\* receiver resolved to Ok(x) / Some(x) the callback is never invoked and the
\* new wrapper resolves to Ok(x) / Some(x).
C5_OrElseRecovers ==
    \A k \in Ids :
        cells[k].op = "orElse" =>
            /\ CallCount(k) > 0 => Source(k).st = "fulfilled" /\ Absent(Source(k).val)
            /\ (Source(k).st = "fulfilled" /\ ~Absent(Source(k).val)) =>
                   /\ CallCount(k) = 0
                   /\ Settled(cells[k]) =>
                          cells[k].st = "fulfilled" /\ cells[k].val = Source(k).val
            /\ (Source(k).st = "fulfilled" /\ Absent(Source(k).val)) =>
                   /\ Started(k) => CallCount(k) = 1
                   /\ Settled(cells[k]) =>
                          LET next == fnBind(cells[k].cls, cells[k].fn,
                                             IF cells[k].cls = "Result"
                                             THEN Source(k).val.value ELSE undefined)
                          IN cells[k].st = next.st /\ cells[k].val = next.val

\* err(e).orElse(f).orElse(g) with f returning a wrapper of an Ok: f ran once, g
\* never, and both new wrappers are resolved to the Ok f's wrapper resolved to.
C5_Witness ==
    \E k \in Ids, j \in Ids :
        /\ cells[k].op = "orElse" /\ cells[j].op = "orElse" /\ cells[j].src = k
        /\ cells[k].fn = "presentW"
        /\ Source(k).st = "fulfilled" /\ is_err(Source(k).val)
        /\ cells[k].st = "fulfilled"
        /\ cells[k].val = Ok(Source(k).val.value + 1)
        /\ CallCount(k) = 1 /\ CallCount(j) = 0
        /\ cells[j].st = "fulfilled" /\ cells[j].val = cells[k].val

\* C6: map on a wrapper resolved to Ok(x) / Some(x) invokes fn once with x and,
\* fn giving y (awaited if it is a promise), resolves to Ok(y) / Some(y); on
\* Err(e) / None it never invokes fn and resolves to Err(e) / None.  mapErr is
\* the mirror: Err(e) gives Err(fn(e)), Ok(x) passes through without a call.
C6_MapTransforms ==
    \A k \in Ids :
        (cells[k].op \in {"map", "mapErr"} /\ Source(k).st = "fulfilled") =>
            LET r == Source(k).val
                mapped == (cells[k].op = "map") = ~Absent(r)
                y == fnValue(cells[k].fn, r.value)
            IN IF mapped
               THEN /\ Started(k) => CallCount(k) = 1 /\ CallArgs(k) = {r.value}
                    /\ (Settled(cells[k]) /\ y.st = "fulfilled") =>
                           /\ cells[k].st = "fulfilled"
                           /\ cells[k].val = [tag |-> r.tag, value |-> y.val]
               ELSE /\ CallCount(k) = 0
                    /\ cells[k].pc # "awaitFn"
                    /\ Settled(cells[k]) =>
                           cells[k].st = "fulfilled" /\ cells[k].val = r

\* ok(x).map(f).mapErr(g) with f returning a promise of x + 1: f ran once, g
\* never, and both new wrappers are resolved to Ok(x + 1).
C6_Witness ==
    \E k \in Ids, j \in Ids :
        /\ cells[k].op = "map" /\ cells[k].fn = "incAsync" /\ cells[k].cls = "Result"
        /\ cells[j].op = "mapErr" /\ cells[j].src = k
        /\ Source(k).st = "fulfilled" /\ is_ok(Source(k).val)
        /\ cells[k].st = "fulfilled" /\ cells[k].val = Ok(Source(k).val.value + 1)
        /\ CallCount(k) = 1 /\ CallCount(j) = 0
        /\ cells[j].st = "fulfilled" /\ cells[j].val = cells[k].val

---------------------------------------------------------------------------
(* Extraction scenario: wrappers over available values and over input      *)
(* promises, with unwrap / expect called on them before or after they have  *)
(* resolved.                                                               *)

NextUnwrap ==
    \/ \E cls \in Classes, v \in Vals : Room /\ SameClass(cls) /\ Of(cls, "int", v)
    \/ \E cls \in Classes, e \in Vals : Room /\ SameClass(cls) /\ OfAbsent(cls, "int", e)
    \/ \E cls \in Classes : Room /\ SameClass(cls) /\ FromPromise(cls, NoFn)
    \/ \E k \in Ids : \E settled \in Settlements : PromiseSettles(k, settled)
    \/ \E src \in Ids : Room /\ Unwrap(src)
    \/ \E src \in Ids, msg \in Msgs : Room /\ Expect(src, msg)
    \/ \E k \in Ids : Job(k)

SpecUnwrap == InitChain /\ [][NextUnwrap]_vars

\* C7: once the wrapper has resolved to Ok(x) / Some(x), the promise unwrap() or
\* expect(msg) returned is fulfilled with x; once it has resolved to Err / None
\* that promise is rejected, never fulfilled, and for expect(msg) the message of
\* the rejection's Error is exactly msg.
C7_UnwrapExpect ==
    \A k \in Ids :
        (/\ cells[k].op \in {"unwrap", "expect"}
         /\ Source(k).st = "fulfilled" /\ Settled(cells[k])) =>
            IF Absent(Source(k).val)
            THEN /\ cells[k].st = "rejected"
                 /\ cells[k].op = "expect" => cells[k].val.message = cells[k].msg
            ELSE cells[k].st = "fulfilled" /\ cells[k].val = Source(k).val.value

\* expect(msg) and unwrap() called on a ResultAsync before it resolved to an
\* Err: both promises are rejected, the first with an Error whose message is msg.
C7_Witness ==
    \E k \in Ids, j \in Ids :
        /\ cells[k].op = "expect" /\ Source(k).op = "fromPromise"
        /\ Source(k).st = "fulfilled" /\ is_err(Source(k).val)
        /\ cells[k].st = "rejected" /\ cells[k].val = Error(cells[k].msg)
        /\ cells[j].op = "unwrap" /\ cells[j].src = cells[k].src
        /\ cells[j].st = "rejected"

---------------------------------------------------------------------------
(* Conversion scenario: wrappers built by try and fromPromise, with and     *)
(* without an errorFn, over thunks and input promises that succeed or fail. *)

\* Room for one more conversion in a program that uses class cls.
Convert(cls) == Len(cells) < MaxTries /\ SameClass(cls)

NextTry ==
    \/ \E fn \in ThunkFns, v \in Vals, efn \in {NoFn} \cup ErrorFns :
           Convert("Result") /\ Try("Result", fn, v, efn)
    \/ \E fn \in ThunkFns, v \in Vals : Convert("Option") /\ Try("Option", fn, v, NoFn)
    \/ \E k \in Ids : TryResume(k)
    \/ \E efn \in {NoFn} \cup ErrorFns : Convert("Result") /\ FromPromise("Result", efn)
    \/ Convert("Option") /\ FromPromise("Option", NoFn)
    \/ \E k \in Ids : \E settled \in Settlements : PromiseSettles(k, settled)

SpecTry == InitChain /\ [][NextTry]_vars

\* How the thing a conversion wrapper was built over turned out: what the thunk
\* of try did, how the input promise of fromPromise settled.
Input(k) ==
    IF cells[k].op = "try"
    THEN LET r == fnThunk(cells[k].fn, cells[k].gives) IN [st |-> r.st, val |-> r.val]
    ELSE cells[k].pend

\* C8: a wrapper built by try or fromPromise that has settled is resolved, not
\* rejected: to Ok(v) / Some(v) when fn returned v or a promise fulfilled with v,
\* or p was fulfilled with v; when fn threw e, returned a promise rejected with
\* e, or p was rejected with e, to None for OptionAsync and for ResultAsync to
\* Err(e) without errorFn and to Err(errorFn(e)) with an errorFn that returns.
C8_TryConvertsFailure ==
    \A k \in Ids :
        (cells[k].op \in {"try", "fromPromise"} /\ Settled(cells[k])) =>
            LET in == Input(k) IN
            IF in.st = "fulfilled"
            THEN cells[k].st = "fulfilled" /\ cells[k].val = Present(cells[k].cls, in.val)
            ELSE IF cells[k].cls = "Option"
            THEN cells[k].st = "fulfilled" /\ cells[k].val = None
            ELSE IF cells[k].efn = NoFn
            THEN cells[k].st = "fulfilled" /\ cells[k].val = Err(in.val)
            ELSE errorFn(cells[k].efn, in.val).how = "return" =>
                     /\ cells[k].st = "fulfilled"
                     /\ cells[k].val = Err(errorFn(cells[k].efn, in.val).val)

\* ResultAsync.try over a thunk whose promise was rejected with e, with an
\* errorFn, resolved to Err(errorFn(e)); next to a ResultAsync.fromPromise
\* without errorFn whose input promise was rejected with e', resolved to Err(e').
C8_Witness ==
    \E k \in Ids, j \in Ids :
        /\ cells[k].op = "try" /\ cells[k].cls = "Result"
        /\ cells[k].fn = "rejects" /\ cells[k].efn = "tagError"
        /\ cells[k].st = "fulfilled"
        /\ cells[k].val = Err(errorFn("tagError", cells[k].gives).val)
        /\ cells[j].op = "fromPromise" /\ cells[j].efn = NoFn
        /\ cells[j].pend.st = "rejected"
        /\ cells[j].st = "fulfilled" /\ cells[j].val = Err(cells[j].pend.val)

---------------------------------------------------------------------------
(* Failure scenario: one chain grown link by link from an available value,  *)
(* with callbacks that may throw, then observed at its end by one `await`,  *)
(* unwrap or expect.                                                       *)

\* The wrapper the chain currently ends with.
ChainEnd == CHOOSE k \in Ids : IsWrapper(k) /\ \A j \in Ids : IsWrapper(j) => j <= k

Observed == \E k \in Ids : cells[k].op \in TerminalOps

\* The next link is chained on the end of the chain, not yet observed.
Link(src) == Len(cells) < MaxChain /\ src = ChainEnd /\ ~Observed

NextThrow ==
    \/ \E cls \in Classes, v \in Vals : cells = <<>> /\ Of(cls, "int", v)
    \/ \E cls \in Classes, e \in Vals : cells = <<>> /\ OfAbsent(cls, "int", e)
    \/ \E src \in Ids, fn \in {"inc", "throws"} : Link(src) /\ Map(src, fn)
    \/ \E src \in Ids, fn \in {"inc", "throws"} : Link(src) /\ MapErr(src, fn)
    \/ \E src \in Ids, fn \in {"absent", "throws"} : Link(src) /\ AndThen(src, fn)
    \/ \E src \in Ids, fn \in {"present", "throws"} : Link(src) /\ OrElse(src, fn)
    \/ \E src \in Ids, fn \in {"odd", "throws"} : Link(src) /\ Filter(src, fn)
    \/ \E src \in Ids, fn \in {"log", "throws"} : Link(src) /\ Inspect(src, fn)
    \/ \E src \in Ids : Link(src) /\ Then(src)
    \/ \E src \in Ids : Link(src) /\ Unwrap(src)
    \/ \E src \in Ids : Link(src) /\ Expect(src, "boom")
    \/ \E k \in Ids : Job(k)
    \/ \E k \in Ids : ResumeFn(k)

SpecThrow == InitChain /\ [][NextThrow]_vars

ThrowOps == {"map", "mapErr", "andThen", "orElse", "filter", "inspect"}

\* C9: when the callback of map, mapErr, andThen, orElse, filter or inspect
\* throws, the wrapper that method produced is rejected with the thrown value;
\* whatever is attached to a rejected wrapper (a later chaining method, orElse
\* and mapErr included, an `await`, unwrap or expect) never invokes its callback
\* and, once settled, is rejected with the same value.
C9_ThrowPropagates ==
    \A k \in Ids :
        /\ (/\ cells[k].op \in ThrowOps /\ cells[k].fn = "throws"
            /\ CallCount(k) > 0) =>
               cells[k].st = "rejected" /\ cells[k].val = Thrown
        /\ (/\ cells[k].op \in ChainOps \cup TerminalOps
            /\ Source(k).st = "rejected") =>
               /\ CallCount(k) = 0
               /\ cells[k].pc # "awaitFn"
               /\ Settled(cells[k]) =>
                      cells[k].st = "rejected" /\ cells[k].val = Source(k).val

\* ok(v).map(f).orElse(g) awaited by unwrap(), f throwing: f ran, g did not, and
\* the two wrappers and the promise of unwrap() are rejected with what f threw.
C9_Witness ==
    \E k \in Ids, j \in Ids, o \in Ids :
        /\ cells[k].op = "map" /\ cells[k].fn = "throws" /\ CallCount(k) = 1
        /\ cells[k].st = "rejected" /\ cells[k].val = Thrown
        /\ cells[j].op = "orElse" /\ cells[j].src = k /\ CallCount(j) = 0
        /\ cells[j].st = "rejected" /\ cells[j].val = Thrown
        /\ cells[o].op = "unwrap" /\ cells[o].src = j
        /\ cells[o].st = "rejected" /\ cells[o].val = Thrown

---------------------------------------------------------------------------
(* Data scenario: wrappers of one class built from available values (plain  *)
(* or nested, given directly or through a promise that is fulfilled later)  *)
(* and combined by every chaining method, with callbacks that return; each  *)
(* method is called on the wrapper built last, with any wrapper built so    *)
(* far as its `other`, and the last wrapper is awaited.                     *)

\* What the promise handed to fromResult / fromOption can be fulfilled with.
Fulfilments(k) == [st : {"fulfilled"}, val : SumValues(cells[k].cls, cells[k].ty)]

\* The next method is called on the wrapper built last, until it is awaited.
Grow(src) == Room /\ src = ChainEnd /\ ~Observed

\* The values are wrapped before the first method is called: the receiver of
\* the chain and one more wrapper for the methods that take an `other`.
Given(cls) ==
    /\ Len(cells) < 2
    /\ \A k \in Ids : cells[k].op \notin ChainOps \cup TerminalOps
    /\ SameClass(cls)

NextData ==
    \/ \E cls \in Classes, ty \in {"int", "nested"} : \E x \in Payloads(cls, ty) :
           Given(cls) /\ Of(cls, ty, x)
    \/ \E cls \in Classes, ty \in {"int", "nested"}, e \in Vals :
           Given(cls) /\ OfAbsent(cls, ty, e)
    \/ \E cls \in Classes, form \in {"plain", "promise"} :
           \E x \in SumValues(cls, "int") : Given(cls) /\ From(cls, "int", form, x)
    \/ \E k \in Ids : \E settled \in Fulfilments(k) : InputSettles(k, settled)
    \/ \E src \in Ids, fn \in {"inc", "incAsync"} : Grow(src) /\ Map(src, fn)
    \/ \E src \in Ids : Grow(src) /\ MapErr(src, "inc")
    \/ \E src \in Ids, fn \in {"absent", "absentP", "presentW"} : Grow(src) /\ AndThen(src, fn)
    \/ \E src \in Ids, fn \in {"present", "absentW"} : Grow(src) /\ OrElse(src, fn)
    \/ \E src \in Ids, oth \in Ids : Grow(src) /\ And(src, oth)
    \/ \E src \in Ids, oth \in Ids : Grow(src) /\ Or(src, oth)
    \/ \E src \in Ids, fn \in {"odd", "oddAsync"} : Grow(src) /\ Filter(src, fn)
    \/ \E src \in Ids, oth \in Ids : Grow(src) /\ Zip(src, oth)
    \/ \E src \in Ids, oth \in Ids : Grow(src) /\ ZipWith(src, oth, "incAsync")
    \/ \E src \in Ids : Grow(src) /\ Flatten(src)
    \/ \E src \in Ids : Grow(src) /\ Inspect(src, "log")
    \/ \E src \in Ids : Grow(src) /\ InspectErr(src, "log")
    \/ \E src \in Ids : Grow(src) /\ Then(src)
    \/ \E k \in Ids : Job(k)
    \/ \E k \in Ids : ResumeFn(k)
    \/ \E k \in Ids : ResumeCell(k)

SpecData == InitChain /\ [][NextData]_vars

\* C10: with wrappers built by ok / err / some / none / fromResult / fromOption
\* and chained by map, mapErr, andThen, orElse, and, or, filter, zip, zipWith,
\* flatten, inspect and inspectErr with callbacks that return, no wrapper is
\* ever rejected, and the promise of an `await` on a wrapper that has settled
\* is fulfilled with the Result / Option the wrapper resolved to, whichever
\* values along the way were Err / None.
C10_AbsenceStaysData ==
    \A k \in Ids :
        /\ cells[k].st # "rejected"
        /\ (cells[k].op = "then" /\ Settled(cells[k])) =>
               Source(k).st = "fulfilled" /\ cells[k].val = Source(k).val

\* An `await` on a wrapper chained on a wrapper that resolved to Err / None:
\* the chained wrapper resolved to an absent value and the await was fulfilled
\* with it.
C10_Witness ==
    \E k \in Ids, o \in Ids :
        /\ cells[o].op = "then" /\ cells[o].src = k
        /\ cells[k].op \in ChainOps
        /\ Source(k).st = "fulfilled" /\ Absent(Source(k).val)
        /\ cells[k].st = "fulfilled" /\ Absent(cells[k].val)
        /\ cells[o].st = "fulfilled" /\ cells[o].val = cells[k].val

---------------------------------------------------------------------------
(* Await scenario: one wrapper, over an available value or over an input    *)
(* promise, with at most one map or inspect chained on it, and any number   *)
(* of awaits of either wrapper, issued at any moment.                       *)

\* No chaining method has been called yet.
Unchained == \A k \in Ids : cells[k].op \notin ChainOps

NextAwait ==
    \/ \E cls \in Classes, v \in Vals : cells = <<>> /\ Of(cls, "int", v)
    \/ \E cls \in Classes, e \in Vals : cells = <<>> /\ OfAbsent(cls, "int", e)
    \/ \E cls \in Classes : cells = <<>> /\ FromPromise(cls, NoFn)
    \/ \E k \in Ids : \E settled \in Settlements : PromiseSettles(k, settled)
    \/ \E src \in Ids, fn \in {"inc", "incAsync"} :
           Len(cells) < MaxChain /\ Unchained /\ Map(src, fn)
    \/ \E src \in Ids : Len(cells) < MaxChain /\ Unchained /\ Inspect(src, "log")
    \/ \E src \in Ids : Len(cells) < MaxChain /\ Then(src)
    \/ \E k \in Ids : Job(k)
    \/ \E k \in Ids : ResumeFn(k)

SpecAwait == InitChain /\ [][NextAwait]_vars

\* The awaits of wrapper k that have been answered.
Answered(k) == {o \in Ids : cells[o].op = "then" /\ cells[o].src = k /\ Settled(cells[o])}

\* C11: every await of one wrapper is answered with the same outcome, the
\* variant and payload the wrapper resolved to, whatever their number and
\* moment; and the callback of a map or inspect chained once has run at most
\* once, and exactly once if the receiver resolved to Ok / Some and the
\* continuation has started, however many times the new wrapper is awaited.
C11_AwaitIdempotent ==
    \A k \in Ids :
        /\ \A o \in Answered(k) :
               cells[o].st = cells[k].st /\ cells[o].val = cells[k].val
        /\ cells[k].op \in {"map", "inspect"} =>
               /\ CallCount(k) <= 1
               /\ (Started(k) /\ Source(k).st = "fulfilled" /\ ~Absent(Source(k).val))
                      => CallCount(k) = 1

\* A wrapper made by inspect on a wrapper resolved to Ok, awaited twice: both
\* awaits were answered with the Ok and the callback ran once.
C11_Witness ==
    \E k \in Ids :
        /\ cells[k].op = "inspect" /\ CallCount(k) = 1
        /\ cells[k].st = "fulfilled" /\ is_ok(cells[k].val)
        /\ Cardinality(Answered(k)) = 2
        /\ \A o \in Answered(k) : cells[o].st = "fulfilled" /\ cells[o].val = cells[k].val

---------------------------------------------------------------------------
(* Resolution scenario: wrappers of one class over available values and     *)
(* input promises, with chaining calls, awaits and extractions issued       *)
(* against any of them at any moment.                                       *)

NextResolve ==
    \/ \E cls \in Classes, v \in Vals : Room /\ SameClass(cls) /\ Of(cls, "int", v)
    \/ \E cls \in Classes, e \in Vals : Room /\ SameClass(cls) /\ OfAbsent(cls, "int", e)
    \/ \E cls \in Classes : Room /\ SameClass(cls) /\ FromPromise(cls, NoFn)
    \/ \E k \in Ids : \E settled \in Settlements : PromiseSettles(k, settled)
    \/ \E src \in Ids, fn \in {"incAsync", "throws"} : Room /\ Map(src, fn)
    \/ \E src \in Ids : Room /\ AndThen(src, "absentP")
    \/ \E src \in Ids : Room /\ Then(src)
    \/ \E src \in Ids : Room /\ Unwrap(src)
    \/ \E k \in Ids : Job(k)
    \/ \E k \in Ids : ResumeFn(k)

SpecResolve == InitChain /\ [][NextResolve]_vars

\* C12: a promise that has settled stays as it is in every step, whatever the
\* step does (a chaining call, an await or an extraction against the wrapper,
\* the resolution of another wrapper): it does not become pending again and
\* its variant and payload do not change.
C12_ResolvedOnce ==
    [][\A k \in Ids :
           Settled(cells[k]) =>
               cells'[k].st = cells[k].st /\ cells'[k].val = cells[k].val]_vars

\* A wrapper over an input promise has resolved, and a map and an await issued
\* against it have both settled.
C12_Witness ==
    \E k \in Ids, j \in Ids, o \in Ids :
        /\ cells[k].op = "fromPromise" /\ cells[k].st = "fulfilled"
        /\ cells[j].op = "map" /\ cells[j].src = k /\ Settled(cells[j])
        /\ cells[o].op = "then" /\ cells[o].src = k /\ Settled(cells[o])

---------------------------------------------------------------------------
(* Ordering scenario: wrappers of one class over available values and input *)
(* promises, with map, inspect and zipWith attached to any of them, in      *)
(* chains and side by side.                                                *)

NextOrder ==
    \/ \E cls \in Classes, v \in Vals : Room /\ SameClass(cls) /\ Of(cls, "int", v)
    \/ \E cls \in Classes : Room /\ SameClass(cls) /\ FromPromise(cls, NoFn)
    \/ \E k \in Ids : \E settled \in Settlements : PromiseSettles(k, settled)
    \/ \E src \in Ids, fn \in {"inc", "incAsync"} : Room /\ Map(src, fn)
    \/ \E src \in Ids : Room /\ Inspect(src, "log")
    \/ \E src \in Ids, oth \in Ids : Room /\ ZipWith(src, oth, "inc")
    \/ \E k \in Ids : Job(k)
    \/ \E k \in Ids : ResumeFn(k)
    \/ \E k \in Ids : ResumeCell(k)

SpecOrder == InitChain /\ [][NextOrder]_vars

\* The wrappers whose callback has run.
Called == {k \in Ids : CallCount(k) > 0}

\* The position of the first run of wrapper k's callback among all runs.
CallIndex(k) == CHOOSE i \in 1..Len(calls) : calls[i].cell = k /\ \A j \in 1..(i - 1) : calls[j].cell # k

\* Callbacks attached side by side to one wrapper, whatever the methods, have
\* run in the order the methods were called.
SideBySideInOrder(ops) ==
    \A j \in Called, k \in Called :
        (cells[j].src = cells[k].src /\ j < k /\ cells[j].op \in ops) =>
            CallIndex(j) < CallIndex(k)

RECURSIVE Downstream(_, _)
\* Wrapper j is wrapper k or comes from it by chaining calls.
Downstream(j, k) ==
    \/ j = k
    \/ cells[j].op \in ChainOps /\ Downstream(cells[j].src, k)

\* C14: the callback of a chaining method has run only if an await or a
\* terminal extraction of the resulting chain (of the wrapper the method
\* returned, or of one chained on it) has been issued: a chain that is built
\* and never awaited never runs its callbacks.
C14_CallbackOnlyWhenAwaited ==
    \A k \in Called :
        cells[k].op \in ChainOps =>
            \E o \in Ids : cells[o].op \in TerminalOps /\ Downstream(cells[o].src, k)

---------------------------------------------------------------------------
(* Timing of the aggregation combinators *)

\* Handle i of aggregate k has resolved to Err / None and every handle before it
\* has resolved to Ok / Some.
FirstAbsent(k, i) ==
    /\ i \in AbsentAt(k)
    /\ \A j \in 1..(i - 1) : j \in Resolved(k) \ AbsentAt(k)

\* C15: once the lowest-index absent handle of all(handles), at index i, and
\* the handles before it have resolved, the aggregate has resolved or its loop
\* is suspended on a handle at an index up to i, which has settled, so that it
\* resumes without waiting for any later handle; it resolves at iteration i,
\* having awaited no handle beyond i; and a later handle that is still pending
\* is left as it was, free to settle afterwards.
C15_AllShortCircuitsInTime ==
    \A k \in Ids : \A i \in 1..Len(cells[k].hs) :
        (cells[k].op = "all" /\ FirstAbsent(k, i)) =>
            /\ cells[k].i <= i
            /\ Settled(cells[k]) \/ Settled(cells[Awaited(cells[k])])
            /\ Settled(cells[k]) => cells[k].i = i /\ Absent(cells[k].val)
            /\ \A j \in (i + 1)..Len(cells[k].hs) :
                   LET h == cells[cells[k].hs[j]] IN ~Settled(h) => h.pc = "start"

\* An all() resolved to the absent value of its first handle while its second
\* handle was still pending; the second handle settled afterwards.
C15_Witness ==
    \E k \in Ids :
        /\ cells[k].op = "all" /\ Len(cells[k].hs) >= 2
        /\ FirstAbsent(k, 1)
        /\ cells[k].st = "fulfilled" /\ Absent(cells[k].val)
        /\ SettledBefore(k, cells[k].hs[2])
        /\ Settled(cells[cells[k].hs[2]])

---------------------------------------------------------------------------
(* Eager-start scenario: wrappers built by try, left alone or chained,      *)
(* awaited and unwrapped at any moment; every observer is attached to a     *)
(* wrapper that try returned.                                               *)

NextEager ==
    \/ \E fn \in {"givesAsync", "rejects"}, v \in Vals :
           Room /\ SameClass("Result") /\ Try("Result", fn, v, NoFn)
    \/ \E fn \in {"gives", "throws"} :
           Room /\ SameClass("Option") /\ Try("Option", fn, 1, NoFn)
    \/ \E k \in Ids : TryResume(k)
    \/ \E src \in Ids : Room /\ cells[src].op = "try" /\ Map(src, "inc")
    \/ \E src \in Ids : Room /\ cells[src].op = "try" /\ Then(src)
    \/ \E src \in Ids : Room /\ cells[src].op = "try" /\ Unwrap(src)
    \/ \E k \in Ids : Job(k)
    \/ \E k \in Ids : ResumeFn(k)

SpecEager == InitChain /\ [][NextEager]_vars

\* The number of times the function handed to try for wrapper k has been invoked.
ThunkCalls(k) ==
    Cardinality({i \in 1..Len(calls) : calls[i].cell = k /\ calls[i].fn = cells[k].fn})

\* What has been attached to wrapper k: chained wrappers, awaits, extractions.
Observers(k) == {o \in Ids : cells[o].src = k}

\* C16: from the moment try(fn) has returned its wrapper and ever after, fn has
\* been invoked exactly once, whatever is chained on the wrapper, awaits it or
\* extracts from it later; and the wrapper's computation needs no observer to
\* go on: while pending it is suspended at `await fn()`, to be resumed by the
\* job queue, and not waiting for an await of the wrapper.
C16_TryStartsOnce ==
    \A k \in Ids :
        cells[k].op = "try" =>
            /\ ThunkCalls(k) = 1
            /\ ~Settled(cells[k]) => cells[k].pc = "awaitFn"

\* Two wrappers built by try over functions returning promises: the first
\* resolved with nothing attached to it, the second was awaited and the await
\* answered; each function ran once.
C16_Witness ==
    \E k \in Ids, j \in Ids, o \in Ids :
        /\ cells[k].op = "try" /\ cells[k].fn = "givesAsync"
        /\ cells[k].st = "fulfilled" /\ Observers(k) = {}
        /\ cells[j].op = "try" /\ cells[j].fn = "rejects" /\ cells[j].st = "fulfilled"
        /\ cells[o].op = "then" /\ cells[o].src = j /\ Settled(cells[o])
        /\ ThunkCalls(k) = 1 /\ ThunkCalls(j) = 1

---------------------------------------------------------------------------
(* Branching scenario: one root, any number of chaining calls on any       *)
(* wrapper, with callbacks that succeed after a suspension, throw or        *)
(* reject.                                                                  *)

NextFrame ==
    \/ \E cls \in Classes, v \in Vals : cells = <<>> /\ Of(cls, "int", v)
    \/ \E cls \in Classes : cells = <<>> /\ FromPromise(cls, NoFn)
    \/ \E k \in Ids : \E settled \in Settlements : PromiseSettles(k, settled)
    \/ \E src \in Ids : Len(cells) < MaxChain /\ Map(src, "incAsync")
    \/ \E src \in Ids : Len(cells) < MaxChain /\ AndThen(src, "rejects")
    \/ \E src \in Ids : Len(cells) < MaxChain /\ Inspect(src, "throws")
    \/ \E k \in Ids : Job(k)
    \/ \E k \in Ids : ResumeFn(k)

SpecFrame == InitChain /\ [][NextFrame]_vars

\* Wrappers k and j were made by the same chaining call on the same wrapper.
Twins(k, j) ==
    /\ cells[k].op \in ChainOps /\ cells[k].op = cells[j].op
    /\ cells[k].src = cells[j].src /\ cells[k].fn = cells[j].fn

\* Cell b is cell a, untouched: same wrapper, same position of its
\* continuation, same state and, once settled, same value.
Untouched(a, b) ==
    /\ a.cls = b.cls /\ a.op = b.op /\ a.src = b.src /\ a.fn = b.fn
    /\ a.pc = b.pc /\ a.st = b.st
    /\ Settled(a) => a.val = b.val

\* C17: a chaining call on wrapper w appends a new wrapper and changes nothing
\* of w, no step of a wrapper chained on w (its callback returning, throwing or
\* rejecting) changes anything of w, and w resolves to what it would have
\* resolved to with nothing chained on it: two wrappers made the same way,
\* whatever has been chained on either, resolve alike.
C17_ChainingLeavesReceiver ==
    /\ [](\A k \in Ids, j \in Ids :
             Twins(k, j) /\ Settled(cells[k]) /\ Settled(cells[j])
                 => cells[k].st = cells[j].st /\ cells[k].val = cells[j].val)
    /\ [][/\ Len(cells') >= Len(cells)
          /\ \A w \in Ids :
                 \/ Untouched(cells[w], cells'[w])
                 \/ /\ Len(cells') = Len(cells)
                    /\ \A o \in Ids : cells[o].src = w => Untouched(cells[o], cells'[o])]_vars

\* A wrapper resolved to the incremented value although a wrapper chained on
\* it has rejected, exactly like its twin on which nothing was chained.
C17_Witness ==
    \E w \in Ids, j \in Ids, o \in Ids :
        /\ w # j /\ Twins(w, j) /\ cells[w].fn = "incAsync"
        /\ cells[o].src = w /\ cells[o].st = "rejected"
        /\ Observers(j) = {}
        /\ cells[w].st = "fulfilled" /\ cells[j].st = "fulfilled"
        /\ cells[w].val = cells[j].val /\ is_ok(cells[w].val)

---------------------------------------------------------------------------
(* Inspection scenario: inspect / inspectErr with a callback that returns,  *)
(* on wrappers given settled or pending, then awaited or mapped.            *)

NextInspect ==
    \/ \E cls \in Classes, v \in Vals : Room /\ SameClass(cls) /\ Of(cls, "int", v)
    \/ \E cls \in Classes, e \in Vals : Room /\ SameClass(cls) /\ OfAbsent(cls, "int", e)
    \/ \E cls \in Classes : Room /\ SameClass(cls) /\ FromPromise(cls, NoFn)
    \/ \E k \in Ids : \E settled \in Settlements : PromiseSettles(k, settled)
    \/ \E src \in Ids : Room /\ Inspect(src, "log")
    \/ \E src \in Ids : Room /\ InspectErr(src, "log")
    \/ \E src \in Ids : Room /\ Map(src, "inc")
    \/ \E src \in Ids : Room /\ Then(src)
    \/ \E k \in Ids : Job(k)

SpecInspect == InitChain /\ [][NextInspect]_vars

\* Whether the method of wrapper k calls its callback on sum-type value r.
Inspects(k, r) ==
    IF cells[k].op = "inspect" THEN r.tag \in {"Ok", "Some"} ELSE r.tag = "Err"

\* C18: for a wrapper k = w.inspect(fn) or w.inspectErr(fn) whose fn returns
\* and whose w resolved to r: before its continuation has run fn was not
\* called; once it has run, k is resolved to r itself and fn has been called
\* once with r's payload if r is the variant the method inspects and not at all
\* otherwise; and whenever a continuation attached to k has started (it has
\* observed r), that one call of fn is already in the call log.
C18_InspectKeepsValue ==
    \A k \in Ids :
        cells[k].op \in {"inspect", "inspectErr"} =>
            /\ ~Started(k) => CallCount(k) = 0 /\ ~Settled(cells[k])
            /\ Started(k) =>
                   /\ Source(k).st = "fulfilled"
                   /\ cells[k].st = "fulfilled" /\ cells[k].val = Source(k).val
                   /\ IF Inspects(k, Source(k).val)
                      THEN CallCount(k) = 1 /\ CallArgs(k) = {Source(k).val.value}
                      ELSE CallCount(k) = 0
            /\ \A o \in Ids :
                   cells[o].src = k /\ Started(o) =>
                       /\ Started(k)
                       /\ Inspects(k, Source(k).val) => CallCount(k) = 1

\* inspect on a wrapper that resolved to Ok(v) after the call: the callback ran
\* once with v and the awaited result of the returned wrapper is Ok(v).
C18_Witness ==
    \E k \in Ids, o \in Ids :
        /\ cells[k].op = "inspect" /\ Source(k).op = "fromPromise"
        /\ Source(k).st = "fulfilled" /\ is_ok(Source(k).val)
        /\ CallCount(k) = 1 /\ CallArgs(k) = {Source(k).val.value}
        /\ cells[o].op = "then" /\ cells[o].src = k /\ cells[o].st = "fulfilled"
        /\ cells[o].val = Source(k).val

---------------------------------------------------------------------------
(* The three forms a callback of andThen may return.                        *)

\* The callbacks of andThen that return a sum-type value in some form.
Returning == BindFns \ {"throws", "rejects"}

\* C19: when wrapper k = w.andThen(fn), w resolved to Ok(x) / Some(x) and fn
\* returns sum-type value r as a plain value, as a promise of r or as a wrapper
\* resolving to r, k resolves to r itself (a value of the sum type with an
\* integer payload, not a wrapper or a promise of one), so any two such
\* wrappers whose callbacks produce the same r resolve alike.
C19_AndThenFlattens ==
    \A k \in Ids :
        (/\ cells[k].op = "andThen" /\ cells[k].fn \in Returning
         /\ Settled(cells[k])
         /\ Source(k).st = "fulfilled" /\ ~Absent(Source(k).val)) =>
            LET r == fnBind(cells[k].cls, cells[k].fn, Source(k).val.value).val IN
                /\ cells[k].st = "fulfilled"
                /\ cells[k].val.tag \in {"Ok", "Err", "Some", "None"}
                /\ cells[k].val = r
                /\ \A j \in Ids :
                       (/\ cells[j].op = "andThen" /\ cells[j].fn \in Returning
                        /\ Settled(cells[j])
                        /\ Source(j).st = "fulfilled" /\ ~Absent(Source(j).val)
                        /\ fnBind(cells[j].cls, cells[j].fn, Source(j).val.value).val = r) =>
                           cells[j].st = "fulfilled" /\ cells[j].val = cells[k].val

\* On one wrapper resolved to Ok(x), two andThen calls whose callbacks return
\* Ok(x + 1) as a promise and as a wrapper: both resolved to Ok(x + 1) itself.
C19_Witness ==
    \E k \in Ids, j \in Ids :
        /\ cells[k].op = "andThen" /\ cells[k].fn = "presentP"
        /\ cells[j].op = "andThen" /\ cells[j].fn = "presentW"
        /\ cells[k].src = cells[j].src
        /\ Source(k).st = "fulfilled" /\ is_ok(Source(k).val)
        /\ cells[k].st = "fulfilled" /\ cells[j].st = "fulfilled"
        /\ cells[k].val = Ok(Source(k).val.value + 1)
        /\ cells[j].val = cells[k].val

---------------------------------------------------------------------------
(* Substitution scenario: and / or between wrappers given settled or        *)
(* settling later.                                                          *)

NextAndOr ==
    \/ \E cls \in Classes, v \in Vals : Room /\ SameClass(cls) /\ Of(cls, "int", v)
    \/ \E cls \in Classes, e \in Vals : Room /\ SameClass(cls) /\ OfAbsent(cls, "int", e)
    \/ \E cls \in Classes : Room /\ SameClass(cls) /\ FromPromise(cls, NoFn)
    \/ \E k \in Ids : \E settled \in Settlements : PromiseSettles(k, settled)
    \/ \E src \in Ids, oth \in Ids : Room /\ And(src, oth)
    \/ \E src \in Ids, oth \in Ids : Room /\ Or(src, oth)
    \/ \E k \in Ids : Job(k)
    \/ \E k \in Ids : ResumeCell(k)

SpecAndOr == InitChain /\ [][NextAndOr]_vars

\* Whether w.and(other) / w.or(other) takes other's value when w resolved to r.
Substitutes(k, r) == IF cells[k].op = "and" THEN ~Absent(r) ELSE Absent(r)

\* C20: for wrapper k = w.and(other) or w.or(other) whose continuation has run
\* on the value r that w resolved to: if r is Ok/Some for and, Err/None for or,
\* k waits for other and, once settled, is resolved to the value other resolved
\* to; otherwise k is resolved to r (w's Err(e) / None for and, w's Ok(x) /
\* Some(x) for or) without waiting for other, whatever state other is in.
C20_AndOrSubstitute ==
    \A k \in Ids :
        (cells[k].op \in {"and", "or"} /\ Started(k)) =>
            /\ Source(k).st = "fulfilled"
            /\ IF Substitutes(k, Source(k).val)
               THEN /\ Settled(cells[k]) <=> cells[k].pc # "awaitCell"
                    /\ Settled(cells[k]) =>
                           /\ cells[cells[k].oth].st = "fulfilled"
                           /\ cells[k].st = "fulfilled"
                           /\ cells[k].val = cells[cells[k].oth].val
               ELSE /\ cells[k].st = "fulfilled"
                    /\ cells[k].val = Source(k).val

\* err(e).and(other) resolved to Err(e) while other is still pending.
C20_Witness ==
    \E k \in Ids :
        /\ cells[k].op = "and" /\ cells[k].cls = "Result"
        /\ Source(k).st = "fulfilled" /\ is_err(Source(k).val)
        /\ cells[cells[k].oth].st = "pending"
        /\ cells[k].st = "fulfilled" /\ cells[k].val = Source(k).val

---------------------------------------------------------------------------
(* Synchronous flatten. `ty` says what the payload of the receiver is:      *)
(* "nested" when it is an instance of the receiver's own sum type, "int"    *)
(* when it is a plain value; it stands for the instanceof tests.            *)

instanceofOwn(ty) == ty = "nested"

\* OptionSome.flatten: an inner Some or None is returned, any other payload
\* leaves `this`.
OptionSome_flatten(self, ty) == IF instanceofOwn(ty) THEN self.value ELSE self

\* OptionNone.flatten: a new None.
OptionNone_flatten(self, ty) == None

\* ResultOk.flatten: an inner Ok or Err is returned, any other payload leaves
\* `this`.
ResultOk_flatten(self, ty) == IF instanceofOwn(ty) THEN self.value ELSE self

\* ResultErr.flatten that drops the error.
ResultErr_flatten_DropsError(self, ty) == Err(undefined)

\* ResultErr.flatten: a new Err of the same error.
ResultErr_flatten(self, ty) == Err(self.value)

\* x.flatten() dispatched on the variant of x.
flatten(self, ty) ==
    CASE is_some(self) -> OptionSome_flatten(self, ty)
      [] is_none(self) -> OptionNone_flatten(self, ty)
      [] is_ok(self)   -> ResultOk_flatten(self, ty)
      [] is_err(self)  -> ResultErr_flatten(self, ty)

---------------------------------------------------------------------------
(* Flatten scenario: w.flatten() on wrappers whose payload is nested or     *)
(* plain (the method's `this` type is erased at run time), then awaited.    *)

\* w.flatten() whatever the payload of w.
FlattenAny(src) == Chain(src, "flatten", NoFn, 0, "int")

NextFlatten ==
    \/ \E cls \in Classes, ty \in {"int", "nested"} : \E x \in Payloads(cls, ty) :
           Room /\ SameClass(cls) /\ Of(cls, ty, x)
    \/ \E cls \in Classes, e \in Vals : Room /\ SameClass(cls) /\ OfAbsent(cls, "nested", e)
    \/ \E cls \in Classes : Room /\ SameClass(cls) /\ FromPromise(cls, NoFn)
    \/ \E k \in Ids : \E settled \in Settlements : PromiseSettles(k, settled)
    \/ \E src \in Ids : Room /\ cells[src].op # "flatten" /\ FlattenAny(src)
    \/ \E src \in Ids : Room /\ Then(src)
    \/ \E k \in Ids : Job(k)

SpecFlatten == InitChain /\ [][NextFlatten]_vars

\* What wrapper k = w.flatten() resolved to: the sum-type value, or a bare
\* payload marked as such when w was present with a plain payload.
Flattened(k) ==
    IF Source(k).ty = "int" /\ ~Absent(Source(k).val)
    THEN [tag |-> "Bare", value |-> cells[k].val]
    ELSE cells[k].val

\* C21: once w resolved to r and w.flatten() has settled, it is resolved to
\* the value the synchronous r.flatten() returns.
C21_FlattenAsSync ==
    \A k \in Ids :
        (cells[k].op = "flatten" /\ Settled(cells[k]) /\ Source(k).st = "fulfilled") =>
            /\ cells[k].st = "fulfilled"
            /\ Flattened(k) = flatten(Source(k).val, Source(k).ty)

---------------------------------------------------------------------------
(* Pattern-matching scenario: match with synchronous and asynchronous      *)
(* handlers on wrappers given settled or settling later.                    *)

NextMatch ==
    \/ \E cls \in Classes, v \in Vals : Room /\ SameClass(cls) /\ Of(cls, "int", v)
    \/ \E cls \in Classes, e \in Vals : Room /\ SameClass(cls) /\ OfAbsent(cls, "int", e)
    \/ \E cls \in Classes : Room /\ SameClass(cls) /\ FromPromise(cls, NoFn)
    \/ \E k \in Ids : \E settled \in Settlements : PromiseSettles(k, settled)
    \/ \E src \in Ids, fn \in {"onPresent", "onPresentAsync"},
          efn \in {"onAbsent", "onAbsentAsync"} : Room /\ Match(src, fn, efn)
    \/ \E k \in Ids : Job(k)
    \/ \E k \in Ids : ResumeFn(k)

SpecMatch == InitChain /\ [][NextMatch]_vars

\* The calls logged for promise k.
CallsOf(k) == {calls[i] : i \in {j \in 1..Len(calls) : calls[j].cell = k}}

\* The one call match makes once the wrapper resolved to r: the Ok / Some
\* handler with the payload, the Err handler with the error, the None handler
\* with nothing.
Dispatch(k, r) ==
    IF ~Absent(r) THEN [fn |-> cells[k].fn, arg |-> r.value, cell |-> k]
    ELSE IF is_err(r) THEN [fn |-> cells[k].efn, arg |-> r.value, cell |-> k]
    ELSE [fn |-> cells[k].efn, arg |-> undefined, cell |-> k]

\* C22: a match call makes no handler call before the wrapper has resolved;
\* once its continuation has run on the resolved value r, exactly one call is
\* logged for it, of the handler of r's variant with r's payload, and the
\* promise match returned, once settled, is fulfilled with what that handler
\* returned, plainly or through a promise.
C22_MatchDispatchesOnce ==
    \A k \in Ids :
        cells[k].op = "match" =>
            /\ ~Started(k) => CallCount(k) = 0 /\ ~Settled(cells[k])
            /\ Started(k) =>
                   /\ Source(k).st = "fulfilled"
                   /\ CallCount(k) = 1
                   /\ CallsOf(k) = {Dispatch(k, Source(k).val)}
                   /\ Settled(cells[k]) =>
                          LET d == Dispatch(k, Source(k).val) IN
                              /\ cells[k].st = "fulfilled"
                              /\ cells[k].val = fnMatch(d.fn, d.arg).val

\* match with an asynchronous Err handler on a wrapper that resolved to Err(e)
\* after the call: the Err handler ran once with e and the promise is fulfilled
\* with its result.
C22_Witness ==
    \E k \in Ids :
        /\ cells[k].op = "match" /\ cells[k].efn = "onAbsentAsync"
        /\ Source(k).op = "fromPromise" /\ Source(k).st = "fulfilled"
        /\ is_err(Source(k).val)
        /\ CallsOf(k) = {[fn |-> "onAbsentAsync", arg |-> Source(k).val.value, cell |-> k]}
        /\ cells[k].st = "fulfilled" /\ cells[k].val = Source(k).val.value + 2

---------------------------------------------------------------------------
(* Lifting scenario: toAsync() on synchronous values, next to a wrapper     *)
(* over a promise that settles whenever it likes, then awaits.              *)

\* ResultOk / ResultErr / OptionSome / OptionNone .prototype.toAsync:
\* fromResult(this) / fromOption(this).
toAsync(cls, self) == From(cls, "int", "plain", self)

Lifted(k) == cells[k].op \in {"fromResult", "fromOption"}

NextLift ==
    \/ \E x \in SumValues("Result", "int") : Room /\ toAsync("Result", x)
    \/ \E x \in SumValues("Option", "int") : Room /\ toAsync("Option", x)
    \/ \E cls \in Classes : Room /\ FromPromise(cls, NoFn)
    \/ \E k \in Ids : \E settled \in Settlements : PromiseSettles(k, settled)
    \/ \E src \in Ids : Room /\ Then(src)
    \/ \E k \in Ids : Job(k)

SpecLift == InitChain /\ [][NextLift]_vars

\* C23: r.toAsync() / o.toAsync() returns a wrapper that is already fulfilled
\* with r / o itself; an await of it that has not run yet is never held up (a
\* job of an await of that wrapper is enabled, whatever else is pending) and
\* runs in one step, handing over that same value.
C23_LiftRoundTrip ==
    \A k \in Ids :
        Lifted(k) =>
            /\ cells[k].st = "fulfilled"
            /\ cells[k].val = cells[k].pend.val
            /\ \A o \in Observers(k) :
                   /\ ~Started(o) => \E j \in Observers(k) : ENABLED Job(j)
                   /\ Started(o) =>
                          cells[o].st = "fulfilled" /\ cells[o].val = cells[k].pend.val

\* Err(e).toAsync() was awaited and the await got Err(e), while a wrapper over
\* a promise created before it is still pending.
C23_Witness ==
    \E k \in Ids, o \in Ids, p \in Ids :
        /\ p < k /\ cells[p].op = "fromPromise" /\ cells[p].st = "pending"
        /\ cells[k].op = "fromResult" /\ is_err(cells[k].val)
        /\ cells[o].op = "then" /\ cells[o].src = k
        /\ cells[o].st = "fulfilled" /\ cells[o].val = cells[k].val

---------------------------------------------------------------------------
(* all() is sequential in time *)

\* Handle j of aggregate k is pending and no handle before it is known absent.
Blocking(k, j) ==
    /\ cells[cells[k].hs[j]].st = "pending"
    /\ \A i \in 1..(j - 1) : i \notin AbsentAt(k)

\* C29: an all() aggregate is not settled while one of its handles is pending
\* and no handle at a lower index has resolved to Err / None, whatever the
\* handles at higher indexes have resolved to; so with its first handle
\* pending it is pending.
C29_AllNotFailFast ==
    \A k \in Ids :
        cells[k].op = "all" =>
            /\ (\E j \in 1..Len(cells[k].hs) : Blocking(k, j)) => ~Settled(cells[k])
            /\ (Len(cells[k].hs) > 0 /\ cells[cells[k].hs[1]].st = "pending")
                   => ~Settled(cells[k]) /\ cells[k].i = 1

\* An all() still pending on its first handle although a later handle has
\* already resolved to the absent variant.
C29_Witness ==
    \E k \in Ids : \E j \in 2..Len(cells[k].hs) :
        /\ cells[k].op = "all" /\ j \in AbsentAt(k)
        /\ cells[cells[k].hs[1]].st = "pending"
        /\ ~Settled(cells[k])

---------------------------------------------------------------------------
(* Synchronous objects.  A heap entry is an instance of OptionSome /        *)
(* OptionNone (cls "Option"), of ResultOk / ResultErr (cls "Result") or a   *)
(* plain object literal (cls "Object"); `obj` is its _tag and value, `ty`   *)
(* what the value is: "int" a plain value, "nested" an instance of the      *)
(* same sum type, "crossed" one of the other sum type.                      *)

Instance(cls, ty, obj) == [cls |-> cls, ty |-> ty, obj |-> obj]

Refs == 1..Len(heap)

\* What a method hands back: the receiver after the call, the object
\* returned, and whether that object is newly constructed (otherwise it is
\* `this`).
Returned(this, out, fresh) ==
    [this |-> this, out |-> out, fresh |-> fresh, threw |-> FALSE, called |-> <<>>]

\* OptionSome.take: `const value = this.value; this.value = undefined;
\* return new OptionSome(value);`  The receiver stays an OptionSome.
OptionSome_take(self) ==
    Returned([self EXCEPT !.obj.value = undefined, !.ty = "int"],
             [self EXCEPT !.obj = Some(self.obj.value)], TRUE)

\* OptionNone.take: `return this;`
OptionNone_take(self) == Returned(self, self, FALSE)

\* replace() that hands back the new value.
OptionSome_replace_ReturnsNew(self, value) ==
    Returned([self EXCEPT !.obj.value = value], [self EXCEPT !.obj = Some(value)], TRUE)

\* OptionSome.replace: `const oldValue = this.value; this.value = value;
\* return new OptionSome(oldValue);`
OptionSome_replace(self, value) ==
    Returned([self EXCEPT !.obj.value = value],
             [self EXCEPT !.obj = Some(self.obj.value)], TRUE)

\* OptionNone.replace: `return new OptionSome(value);`
OptionNone_replace(self, value) == Returned(self, [self EXCEPT !.obj = Some(value)], TRUE)

\* A call of a method the receiver does not have: a TypeError is thrown.
TypeError(self) ==
    [this |-> self, out |-> self, fresh |-> FALSE, threw |-> TRUE, called |-> <<>>]

\* OptionSome.transpose: an object literal {_tag: 'Ok', value: new
\* OptionSome(result.value)} or {_tag: 'Err', value: result.value}, not an
\* instance of a Result class.
OptionSome_transpose(self) ==
    LET result == self.obj.value IN
        IF result.tag = "Ok"
        THEN Returned(self, Instance("Object", "crossed", Ok(Some(result.value))), TRUE)
        ELSE Returned(self, Instance("Object", "int", Err(result.value)), TRUE)

\* OptionNone.transpose: the object literal {_tag: 'Ok', value: new OptionNone()}.
OptionNone_transpose(self) ==
    Returned(self, Instance("Object", "crossed", Ok(None)), TRUE)

\* ResultOk.transpose: Some(new ResultOk(option.value)) or None().
ResultOk_transpose(self) ==
    LET option == self.obj.value IN
        IF option.tag = "Some"
        THEN Returned(self, Instance("Option", "crossed", Some(Ok(option.value))), TRUE)
        ELSE Returned(self, Instance("Option", "crossed", None), TRUE)

\* ResultErr.transpose: Some(new ResultErr(this.value)).
ResultErr_transpose(self) ==
    Returned(self, Instance("Option", "crossed", Some(Err(self.obj.value))), TRUE)

\* x.transpose() dispatched on the class and variant of x; an object literal
\* has no such method.
transpose(self) ==
    CASE self.cls = "Object"                       -> TypeError(self)
      [] self.cls = "Option" /\ is_some(self.obj)  -> OptionSome_transpose(self)
      [] self.cls = "Option" /\ is_none(self.obj)  -> OptionNone_transpose(self)
      [] self.cls = "Result" /\ is_ok(self.obj)    -> ResultOk_transpose(self)
      [] self.cls = "Result" /\ is_err(self.obj)   -> ResultErr_transpose(self)

\* OptionSome.map / ResultOk.map: a new present variant of fn(this.value).
\* OptionNone.map: a new None; ResultErr.map: a new Err of the same error.
OptionSome_map(self, fn) ==
    [Returned(self, [self EXCEPT !.obj = Some(fnValue(fn, self.obj.value).val)], TRUE)
        EXCEPT !.called = <<[fn |-> fn, arg |-> self.obj.value]>>]

\* OptionNone.map that runs the callback on undefined.
OptionNone_map_Calls(self, fn) ==
    [Returned(self, [self EXCEPT !.obj = None], TRUE)
        EXCEPT !.called = <<[fn |-> fn, arg |-> undefined]>>]

OptionNone_map(self, fn) == Returned(self, [self EXCEPT !.obj = None], TRUE)

ResultOk_map(self, fn) ==
    [Returned(self, [self EXCEPT !.obj = Ok(fnValue(fn, self.obj.value).val)], TRUE)
        EXCEPT !.called = <<[fn |-> fn, arg |-> self.obj.value]>>]

ResultErr_map(self, fn) == Returned(self, [self EXCEPT !.obj = Err(self.obj.value)], TRUE)

\* and_then: `return fn(this.value)` on the present variants, a new None / a
\* new Err of the same error on the absent ones.
OptionSome_and_then(self, fn) ==
    [Returned(self, [self EXCEPT !.obj = fnBind("Option", fn, self.obj.value).val], TRUE)
        EXCEPT !.called = <<[fn |-> fn, arg |-> self.obj.value]>>]

OptionNone_and_then(self, fn) == Returned(self, [self EXCEPT !.obj = None], TRUE)

ResultOk_and_then(self, fn) ==
    [Returned(self, [self EXCEPT !.obj = fnBind("Result", fn, self.obj.value).val], TRUE)
        EXCEPT !.called = <<[fn |-> fn, arg |-> self.obj.value]>>]

ResultErr_and_then(self, fn) ==
    Returned(self, [self EXCEPT !.obj = Err(self.obj.value)], TRUE)

\* A method call on heap object o returns r: the receiver is updated in place,
\* a new object is allocated for a fresh result, and `ret` describes the call.
Call(o, op, arg, r) ==
    /\ heap' = IF r.fresh THEN Append([heap EXCEPT ![o] = r.this], r.out)
               ELSE [heap EXCEPT ![o] = r.this]
    /\ ret' = [op |-> op, self |-> o, arg |-> arg, was |-> heap[o].obj,
               out |-> IF r.fresh THEN Len(heap) + 1 ELSE o,
               threw |-> r.threw, called |-> r.called]
    /\ UNCHANGED <<cells, calls, order>>

\* o.take()
Take(o) ==
    /\ heap[o].cls = "Option"
    /\ Call(o, "take", undefined,
            IF is_some(heap[o].obj) THEN OptionSome_take(heap[o]) ELSE OptionNone_take(heap[o]))

\* o.replace(value)
Replace(o, value) ==
    /\ heap[o].cls = "Option" /\ heap[o].ty = "int"
    /\ Call(o, "replace", value,
            IF is_some(heap[o].obj) THEN OptionSome_replace(heap[o], value)
            ELSE OptionNone_replace(heap[o], value))

\* o.flatten(): the inner object when the payload is an instance of the same
\* sum type, `this` for any other payload of a present variant, a new absent
\* variant otherwise.
CallFlatten(o) ==
    /\ heap[o].cls \in Classes
    /\ LET self == heap[o]
           kept == ~Absent(self.obj) /\ ~instanceofOwn(self.ty)
       IN Call(o, "flatten", undefined,
               Returned(self, Instance(self.cls, "int", flatten(self.obj, self.ty)), ~kept))

\* o.transpose() on an Option of Result, a Result of Option, or what an earlier
\* transpose returned.
CallTranspose(o) ==
    /\ heap[o].ty = "crossed" \/ heap[o].cls = "Object"
    /\ Call(o, "transpose", undefined, transpose(heap[o]))

\* o.map(fn)
CallMap(o, fn) ==
    /\ heap[o].cls \in Classes /\ heap[o].ty = "int"
    /\ Call(o, "map", fn,
            CASE is_some(heap[o].obj) -> OptionSome_map(heap[o], fn)
              [] is_none(heap[o].obj) -> OptionNone_map(heap[o], fn)
              [] is_ok(heap[o].obj)   -> ResultOk_map(heap[o], fn)
              [] is_err(heap[o].obj)  -> ResultErr_map(heap[o], fn))

\* o.and_then(fn)
CallAndThen(o, fn) ==
    /\ heap[o].cls \in Classes /\ heap[o].ty = "int"
    /\ Call(o, "and_then", fn,
            CASE is_some(heap[o].obj) -> OptionSome_and_then(heap[o], fn)
              [] is_none(heap[o].obj) -> OptionNone_and_then(heap[o], fn)
              [] is_ok(heap[o].obj)   -> ResultOk_and_then(heap[o], fn)
              [] is_err(heap[o].obj)  -> ResultErr_and_then(heap[o], fn))

---------------------------------------------------------------------------
(* Synchronous scenario: one object of any shape to start with, then        *)
(* method calls on the objects at hand.                                     *)

\* Result-of-Option and Option-of-Result values.
Crossed(cls) ==
    IF cls = "Option"
    THEN {Some(Ok(v)) : v \in Vals} \cup {Some(Err(v)) : v \in Vals} \cup {None}
    ELSE {Ok(Some(v)) : v \in Vals} \cup {Ok(None)} \cup {Err(v) : v \in Vals}

\* The values of class cls whose payload is of kind ty.
Objects(cls, ty) == IF ty = "crossed" THEN Crossed(cls) ELSE SumValues(cls, ty)

InitSync ==
    /\ cells = <<>> /\ calls = <<>> /\ order = <<>> /\ ret = NoCall
    /\ \E cls \in Classes, ty \in {"int", "nested", "crossed"} :
           \E x \in Objects(cls, ty) : heap = <<Instance(cls, ty, x)>>

Space == Len(heap) < MaxObjs

NextSync ==
    \/ \E o \in Refs : Space /\ Take(o)
    \/ \E o \in Refs, v \in Vals : Space /\ Replace(o, v)
    \/ \E o \in Refs : Space /\ CallFlatten(o)
    \/ \E o \in Refs : Space /\ CallTranspose(o)
    \/ \E o \in Refs : Space /\ CallMap(o, "inc")
    \/ \E o \in Refs, fn \in {"present", "absent"} : Space /\ CallAndThen(o, fn)

SpecSync == InitSync /\ [][NextSync]_vars

\* C24: right after o.take(): if o was Some(x) the call returned Some(x) and o
\* now is a None (is_none() true, is_some() false); if o was None the call
\* returned None and o is None.
C24_TakeLeavesNone ==
    ret.op = "take" =>
        /\ heap[ret.out].obj = ret.was
        /\ is_none(heap[ret.self].obj)
        /\ ~is_some(heap[ret.self].obj)

Transposed(cls, x) ==
    IF cls = "Option"
    THEN CASE is_none(x)    -> Ok(None)
           [] is_ok(x.value)  -> Ok(Some(x.value.value))
           [] is_err(x.value) -> Err(x.value.value)
    ELSE CASE is_err(x)           -> Some(Err(x.value))
           [] is_none(x.value) -> None
           [] is_some(x.value) -> Some(Ok(x.value.value))

\* C26: right after x.transpose() on an Option of Result or a Result of Option
\* x: the call returned the value the table gives, and transposing that outcome
\* again succeeds and gives a value with the variant nesting and payload of x.
C26_TransposeInverse ==
    (ret.op = "transpose" /\ heap[ret.self].cls \in Classes) =>
        /\ ~ret.threw
        /\ heap[ret.out].obj.tag = Transposed(heap[ret.self].cls, ret.was).tag
        /\ heap[ret.out].obj = Transposed(heap[ret.self].cls, ret.was)
        /\ LET back == transpose(heap[ret.out]) IN
               /\ ~back.threw
               /\ back.out.obj.tag = ret.was.tag
               /\ back.out.obj = ret.was

\* C27: right after x.flatten(): a present x whose payload is an instance of
\* the same sum type gave that payload (Some(Some(v)) gave Some(v), Some(None)
\* gave None, Ok(Ok(v)) gave Ok(v), Ok(Err(e)) gave Err(e)), one level only; an
\* absent x gave None / Err(e) with its error; a present x with any other
\* payload gave x itself; x is unchanged.
C27_FlattenLaw ==
    ret.op = "flatten" =>
        LET self == heap[ret.self] IN
            /\ self.obj = ret.was
            /\ IF Absent(ret.was)
               THEN heap[ret.out].obj = AbsentOf(self.cls, ret.was.value)
               ELSE IF self.ty = "nested"
               THEN /\ heap[ret.out].obj = ret.was.value
                    /\ heap[ret.out].ty = "int"
                    /\ heap[ret.out].obj.value \in Vals \cup {undefined}
               ELSE ret.out = ret.self

\* Ok(Err(e)).flatten() returned Err(e).
C27_Witness ==
    /\ ret.op = "flatten" /\ heap[ret.self].ty = "nested"
    /\ is_ok(ret.was) /\ is_err(ret.was.value)
    /\ heap[ret.out].obj = Err(ret.was.value.value)

\* C28: right after x.map(f) or x.and_then(f): on Some(v), map called f once
\* with v and unwrapping what it returned gives f(v); on None and Err(e), map
\* and and_then called nothing and returned None, respectively an Err with the
\* same e.
C28_SyncShortCircuit ==
    ret.op \in {"map", "and_then"} =>
        IF Absent(ret.was)
        THEN /\ ret.called = <<>>
             /\ heap[ret.out].obj = AbsentOf(heap[ret.self].cls, ret.was.value)
        ELSE (ret.op = "map" /\ is_some(ret.was)) =>
                 /\ ret.called = <<[fn |-> ret.arg, arg |-> ret.was.value]>>
                 /\ OptionSome_unwrap(heap[ret.out].obj).val = fnValue(ret.arg, ret.was.value).val

\* Err(e).and_then(f) returned a new Err(e) without calling f.
C28_Witness ==
    /\ ret.op = "and_then" /\ is_err(ret.was)
    /\ ret.called = <<>> /\ ret.out # ret.self
    /\ heap[ret.out].obj = Err(ret.was.value)

---------------------------------------------------------------------------
(* Identity of the Option an OptionAsync resolves to.  A fulfilled promise  *)
(* holds a reference to an Option object: `val.ref` names the object in the *)
(* heap, and a continuation reads the object as it is when it runs.         *)

\* The value carries the identity of an existing object.
Held(v) == "ref" \in DOMAIN v

\* The object behind a reference, as it is now.
Deref(v) == [tag |-> heap[v.ref].obj.tag, value |-> heap[v.ref].obj.value, ref |-> v.ref]

\* What a settled promise hands to its reactions.
OutcomeNow(c) ==
    [st |-> c.st, val |-> IF c.st = "fulfilled" /\ Held(c.val) THEN Deref(c.val) ELSE c.val]

\* `Some(..)` / `None()` in a continuation construct a new object; returning
\* `option` (or what `await other.promise` gave) returns the object it is.
Allocated(out) ==
    IF out.k = "return" /\ ~Held(out.val)
    THEN [out EXCEPT !.val = [tag |-> out.val.tag, value |-> out.val.value,
                              ref |-> Len(heap) + 1]]
    ELSE out

Allocation(out, ty) ==
    IF out.k = "return" /\ ~Held(out.val)
    THEN Append(heap, Instance("Option", ty, out.val))
    ELSE heap

\* OptionAsync.some(value) / OptionAsync.none(): Promise.resolve(Some(value)),
\* Promise.resolve(None()).
OptionAsync_of(option) ==
    LET out == Return(option) IN
    /\ cells' = Append(cells, After([Blank EXCEPT !.cls = "Option",
                                                  !.op = IF is_some(option) THEN "some" ELSE "none"],
                                    Allocated(out)))
    /\ calls' = Logged(Len(cells) + 1, out)
    /\ order' = Append(order, Len(cells) + 1)
    /\ heap' = Allocation(out, "int")
    /\ UNCHANGED ret

\* A continuation of promise k runs one step; what it returns is an object.
CommitObject(k, out) ==
    /\ cells' = [cells EXCEPT ![k] = After(cells[k], Allocated(out))]
    /\ calls' = Logged(k, out)
    /\ order' = IF Settles(out) THEN Append(order, k) ELSE order
    /\ heap' = Allocation(out, cells[k].ty)
    /\ UNCHANGED ret

\* The reaction job of wrapper k, `option` bound to the resolved object.
JobObject(k) ==
    /\ cells[k].op \in ChainOps \cup TerminalOps
    /\ cells[k].pc = "start"
    /\ Settled(Source(k))
    /\ EarlierStarted(k)
    /\ CommitObject(k, Reaction(cells[k], OutcomeNow(Source(k))))

\* The continuation resumes after `await fn(...)`.
ResumeFnObject(k) ==
    /\ cells[k].op \in ChainOps
    /\ cells[k].pc = "awaitFn"
    /\ CommitObject(k, Handler(cells[k], OutcomeNow(Source(k)).val, cells[k].pend))

\* The continuation resumes once other.promise has settled.
ResumeCellObject(k) ==
    /\ cells[k].op \in ChainOps
    /\ cells[k].pc = "awaitCell"
    /\ Settled(cells[cells[k].oth])
    /\ CommitObject(k, Handler(cells[k], OutcomeNow(Source(k)).val,
                               OutcomeNow(cells[cells[k].oth])))

\* The Options a caller holds: what `await wrapper` has yielded.
Obtained == {cells[t].val.ref : t \in {j \in Ids : cells[j].op = "then" /\ cells[j].st = "fulfilled"}}

\* Scenario: OptionAsync wrappers over Some(v) and None, the pass-through
\* combinators and map / zip chained on them, awaits, and take() / replace(v)
\* on an awaited Option.
NextShare ==
    \/ \E v \in Vals : Room /\ OptionAsync_of(Some(v))
    \/ Room /\ OptionAsync_of(None)
    \/ \E s \in Ids : Room /\ Filter(s, "oddAsync")
    \/ \E s \in Ids : Room /\ Inspect(s, "log")
    \/ \E s, o \in Ids : Room /\ s # o /\ Or(s, o)
    \/ \E s \in Ids : Room /\ OrElse(s, "present")
    \/ \E s \in Ids : Room /\ Map(s, "inc")
    \/ \E s, o \in Ids : Room /\ s # o /\ Zip(s, o)
    \/ \E s \in Ids : Room /\ Then(s)
    \/ \E k \in Ids : JobObject(k)
    \/ \E k \in Ids : ResumeFnObject(k)
    \/ \E k \in Ids : ResumeCellObject(k)
    \/ \E o \in Obtained : Space /\ Take(o)
    \/ \E o \in Obtained, v \in Vals : Space /\ Replace(o, v)

SpecShare == InitChain /\ [][NextShare]_vars

\* Wrapper d, chained with one of `ops` on a wrapper, both fulfilled.
Derived(d, ops) ==
    /\ cells[d].op \in ops /\ cells[d].st = "fulfilled"
    /\ Source(d).cls = "Option" /\ Source(d).st = "fulfilled"

\* The predicate of filter wrapper d returned true.
Kept(d) == \E i \in 1..Len(calls) :
    calls[i].cell = d /\ fnPredicate(calls[i].fn, calls[i].arg).val

\* Wrapper d resolves to the object its receiver resolves to.
Aliases(d) == cells[d].val.ref = Source(d).val.ref

====
